---- MODULE Spec2Model ----
(***************************************************************************)
(* libconfigini: the section / key-value store, the line scanner, the      *)
(* typed accessors and the serializer of src/src/configini.c.              *)
(*                                                                         *)
(* A C string is a sequence of one-character strings; reading past its end *)
(* yields NUL.  A null char pointer is NULLSTR, a null Config handle is    *)
(* NULLCFG, a null section pointer is section index 0.                     *)
(***************************************************************************)
EXTENDS Integers, Sequences, FiniteSets, TLC

VARIABLES
    cfg,      \* the caller's store (the object behind its Config handle)
    errno,    \* the C library's error indicator
    crashed,  \* the process was killed by a read through a null pointer
    last      \* the most recent API call: its arguments and its results

vars == <<cfg, errno, crashed, last>>

(***************************************************************************)
(* Bounds of the model                                                     *)
(***************************************************************************)
\* the callers keep at most this many entries in the store
MaxEntries == 2

(***************************************************************************)
(* C library                                                               *)
(***************************************************************************)
NUL == "NUL"
NULLSTR == <<"NULLPTR">>
NULLCFG == [isnull |-> TRUE]
ERANGE == "ERANGE"

CONFIG_RET_OK == "CONFIG_RET_OK"
CONFIG_ERR_FILE == "CONFIG_ERR_FILE"
CONFIG_ERR_NO_SECTION == "CONFIG_ERR_NO_SECTION"
CONFIG_ERR_NO_KEY == "CONFIG_ERR_NO_KEY"
CONFIG_ERR_MEMALLOC == "CONFIG_ERR_MEMALLOC"
CONFIG_ERR_INVALID_PARAM == "CONFIG_ERR_INVALID_PARAM"
CONFIG_ERR_INVALID_VALUE == "CONFIG_ERR_INVALID_VALUE"
CONFIG_ERR_PARSING == "CONFIG_ERR_PARSING"

COMMENT_CHARS == <<"#">>
KEYVAL_SEP == "="
STR_TRUE == <<"1">>
STR_FALSE == <<"0">>
CONFIG_INIT_MAGIC == 19861201
CONFIG_SECTNAME_DEFAULT == NULLSTR

\* *p for the pointer s + (i - 1)
At(s, i) == IF i >= 1 /\ i <= Len(s) THEN s[i] ELSE NUL

\* the C string s[from .. to-1]
Sub(s, from, to) == IF to > from THEN SubSeq(s, from, to - 1) ELSE <<>>

isspace(ch) == ch \in {" ", "\t", "\n", "\f", "\r"}

isdigit(ch) == ch \in {"0", "1", "2", "3", "4", "5", "6", "7", "8", "9"}

\* strchr(s, ch) != NULL; the terminator counts as part of the string
strchr(s, ch) == ch = NUL \/ \E i \in 1..Len(s) : s[i] = ch

UpperCase == <<"A","B","C","D","E","F","G","H","I","J","K","L","M",
               "N","O","P","Q","R","S","T","U","V","W","X","Y","Z">>
LowerCase == <<"a","b","c","d","e","f","g","h","i","j","k","l","m",
               "n","o","p","q","r","s","t","u","v","w","x","y","z">>

tolower(ch) ==
    IF \E i \in 1..26 : UpperCase[i] = ch
    THEN LowerCase[CHOOSE i \in 1..26 : UpperCase[i] = ch]
    ELSE ch

\* strcasecmp(a, b) == 0
strcasecmp0(a, b) ==
    /\ Len(a) = Len(b)
    /\ \A i \in 1..Len(a) : tolower(a[i]) = tolower(b[i])

\* while (*p && isspace(*p)) ++p;
RECURSIVE SkipSpace(_, _)
SkipSpace(s, p) ==
    IF At(s, p) # NUL /\ isspace(At(s, p)) THEN SkipSpace(s, p + 1) ELSE p

\* while (*q && (q > p) && isspace(*(q - 1))) --q;
RECURSIVE TrimBack(_, _, _)
TrimBack(s, q, p) ==
    IF At(s, q) # NUL /\ q > p /\ isspace(At(s, q - 1))
    THEN TrimBack(s, q - 1, p)
    ELSE q

\* for (q = p; *q && *q != '\r' && *q != '\n' && *q != stop
\*             && !strchr(comment_chars, *q); ++q) ;
\* stop = NUL when the loop has no extra stop character
RECURSIVE ScanToken(_, _, _, _)
ScanToken(s, q, stop, comment_chars) ==
    IF /\ At(s, q) # NUL
       /\ At(s, q) # "\r"
       /\ At(s, q) # "\n"
       /\ At(s, q) # stop
       /\ ~strchr(comment_chars, At(s, q))
    THEN ScanToken(s, q + 1, stop, comment_chars)
    ELSE q

\* StrSafeCpy(dst, src, size): dst receives at most size-1 characters of src
StrSafeCpy(src, size) ==
    IF size = 0 THEN <<>>
    ELSE IF Len(src) <= size - 1 THEN src
    ELSE SubSeq(src, 1, size - 1)

\* snprintf(value, size, "%s", src)
SnprintfS(src, size) ==
    IF Len(src) <= size - 1 THEN src ELSE SubSeq(src, 1, size - 1)

(***************************************************************************)
(* Value store                                                             *)
(***************************************************************************)
\* outcomes of reading through a null pointer: the process is killed, or
\* the read yields a zero or a non-zero word
NullDeref == {"SIGSEGV", "zero", "nonzero"}

IsNullCfg(c) == "isnull" \in DOMAIN c

\* position of the first section matching the name, 0 (NULL) when none
ConfigGetSection(c, section) ==
    LET match(i) ==
            \/ /\ section # NULLSTR
               /\ c.sect_list[i].name # NULLSTR
               /\ c.sect_list[i].name = section
            \/ /\ section = NULLSTR
               /\ c.sect_list[i].name = NULLSTR
        hits == {i \in 1..Len(c.sect_list) : match(i)}
    IN  IF hits = {} THEN 0 ELSE CHOOSE i \in hits : \A j \in hits : i <= j

ConfigGetSectionRet(c, section) ==
    IF IsNullCfg(c) THEN CONFIG_ERR_INVALID_PARAM
    ELSE IF ConfigGetSection(c, section) = 0 THEN CONFIG_ERR_NO_SECTION
    ELSE CONFIG_RET_OK

ConfigHasSection(c, section) == ConfigGetSectionRet(c, section) = CONFIG_RET_OK

\* a variant that compares the key of the first entry only
ConfigGetKeyValueFirst(sect, key) ==
    IF sect.kv_list # <<>> /\ sect.kv_list[1].key = key THEN 1 ELSE 0

\* position of the first entry with the key in a section, 0 (NULL) when none
ConfigGetKeyValue(sect, key) ==
    LET hits == {i \in 1..Len(sect.kv_list) : sect.kv_list[i].key = key}
    IN  IF hits = {} THEN 0 ELSE CHOOSE i \in hits : \A j \in hits : i <= j

\* a variant that reports an absent section as an absent key
LookupRetKeyOnly(c, section, key) ==
    IF ConfigGetSectionRet(c, section) = CONFIG_ERR_NO_SECTION
    THEN CONFIG_ERR_NO_KEY
    ELSE IF ConfigGetSectionRet(c, section) # CONFIG_RET_OK
    THEN ConfigGetSectionRet(c, section)
    ELSE IF key = NULLSTR THEN CONFIG_ERR_INVALID_PARAM
    ELSE IF ConfigGetKeyValue(c.sect_list[ConfigGetSection(c, section)], key) = 0
    THEN CONFIG_ERR_NO_KEY
    ELSE CONFIG_RET_OK

\* the status of ConfigGetSection followed by ConfigGetKeyValue
LookupRet(c, section, key) ==
    IF ConfigGetSectionRet(c, section) # CONFIG_RET_OK
    THEN ConfigGetSectionRet(c, section)
    ELSE IF key = NULLSTR THEN CONFIG_ERR_INVALID_PARAM
    ELSE IF ConfigGetKeyValue(c.sect_list[ConfigGetSection(c, section)], key) = 0
    THEN CONFIG_ERR_NO_KEY
    ELSE CONFIG_RET_OK

\* kv->value of the entry found by the lookup
LookupValue(c, section, key) ==
    LET sect == c.sect_list[ConfigGetSection(c, section)]
    IN  sect.kv_list[ConfigGetKeyValue(sect, key)].value

\* nd is the outcome of TAILQ_FIRST(..)->numofkv when the list is empty
ConfigGetSectionCount(c, nd) ==
    IF IsNullCfg(c) THEN [ret |-> -1, crashed |-> FALSE]
    ELSE IF c.sect_list = <<>>
    THEN CASE nd = "SIGSEGV" -> [ret |-> 0, crashed |-> TRUE]
           [] nd = "zero"    -> [ret |-> c.numofsect - 1, crashed |-> FALSE]
           [] OTHER          -> [ret |-> c.numofsect, crashed |-> FALSE]
    ELSE [ret |-> IF c.sect_list[1].numofkv > 0
                  THEN c.numofsect ELSE c.numofsect - 1,
          crashed |-> FALSE]

ConfigGetKeyCount(c, section) ==
    IF IsNullCfg(c) THEN -1
    ELSE IF ConfigGetSectionRet(c, section) # CONFIG_RET_OK THEN -1
    ELSE c.sect_list[ConfigGetSection(c, section)].numofkv

ConfigAddSection(c, section) ==
    IF IsNullCfg(c)
    THEN [ret |-> CONFIG_ERR_INVALID_PARAM, cfg |-> c, sect |-> 0]
    ELSE IF ConfigGetSection(c, section) # 0
    THEN [ret |-> CONFIG_RET_OK, cfg |-> c, sect |-> ConfigGetSection(c, section)]
    ELSE [ret |-> CONFIG_RET_OK,
          cfg |-> [c EXCEPT
                   !.sect_list = Append(@, [name |-> section, numofkv |-> 0,
                                            kv_list |-> <<>>]),
                   !.numofsect = @ + 1],
          sect |-> Len(c.sect_list) + 1]

\* a variant that trims white space at the end of the value as well, which
\* the code does only when the scan stopped ahead of the terminating NUL
RECURSIVE TrimBackAlways(_, _, _)
TrimBackAlways(s, q, p) ==
    IF q > p /\ isspace(At(s, q - 1)) THEN TrimBackAlways(s, q - 1, p) ELSE q

StoredValueTrimmed(c, value) ==
    LET p == SkipSpace(value, 1)
        q == ScanToken(value, p, NUL, c.comment_chars)
    IN  Sub(value, p, TrimBackAlways(value, q, p))

\* the value as ConfigAddString stores it
StoredValue(c, value) ==
    LET p == SkipSpace(value, 1)
        q == ScanToken(value, p, NUL, c.comment_chars)
    IN  Sub(value, p, TrimBack(value, q, p))

\* a variant that does not look the key up and always appends an entry
ConfigAddStringAppend(c, section, key, value) ==
    IF IsNullCfg(c) \/ key = NULLSTR \/ value = NULLSTR
    THEN [ret |-> CONFIG_ERR_INVALID_PARAM, cfg |-> c]
    ELSE
    LET a  == ConfigAddSection(c, section)
        c1 == a.cfg
        v  == StoredValue(c1, value)
    IN  IF a.ret # CONFIG_RET_OK THEN [ret |-> a.ret, cfg |-> c1]
        ELSE [ret |-> CONFIG_RET_OK,
              cfg |-> [c1 EXCEPT
                       !.sect_list[a.sect].kv_list =
                           Append(@, [key |-> key, value |-> v]),
                       !.sect_list[a.sect].numofkv = @ + 1]]

\* a variant that moves a replaced entry to the end of its section
ConfigAddStringMove(c, section, key, value) ==
    IF IsNullCfg(c) \/ key = NULLSTR \/ value = NULLSTR
    THEN [ret |-> CONFIG_ERR_INVALID_PARAM, cfg |-> c]
    ELSE
    LET a  == ConfigAddSection(c, section)
        c1 == a.cfg
        sect == c1.sect_list[a.sect]
        kv == ConfigGetKeyValue(sect, key)
        v  == StoredValue(c1, value)
    IN  IF a.ret # CONFIG_RET_OK THEN [ret |-> a.ret, cfg |-> c1]
        ELSE IF kv # 0
        THEN [ret |-> CONFIG_RET_OK,
              cfg |-> [c1 EXCEPT
                       !.sect_list[a.sect].kv_list =
                           Append(SubSeq(@, 1, kv - 1)
                                    \o SubSeq(@, kv + 1, Len(@)),
                                  [key |-> key, value |-> v])]]
        ELSE [ret |-> CONFIG_RET_OK,
              cfg |-> [c1 EXCEPT
                       !.sect_list[a.sect].kv_list =
                           Append(@, [key |-> key, value |-> v]),
                       !.sect_list[a.sect].numofkv = @ + 1]]

ConfigAddString(c, section, key, value) ==
    IF IsNullCfg(c) \/ key = NULLSTR \/ value = NULLSTR
    THEN [ret |-> CONFIG_ERR_INVALID_PARAM, cfg |-> c]
    ELSE
    LET a  == ConfigAddSection(c, section)
        c1 == a.cfg
        sect == c1.sect_list[a.sect]
        kv == ConfigGetKeyValue(sect, key)
        v  == StoredValue(c1, value)
    IN  IF a.ret # CONFIG_RET_OK THEN [ret |-> a.ret, cfg |-> c1]
        ELSE IF kv # 0
        THEN [ret |-> CONFIG_RET_OK,
              cfg |-> [c1 EXCEPT !.sect_list[a.sect].kv_list[kv].value = v]]
        ELSE [ret |-> CONFIG_RET_OK,
              cfg |-> [c1 EXCEPT
                       !.sect_list[a.sect].kv_list =
                           Append(@, [key |-> key, value |-> v]),
                       !.sect_list[a.sect].numofkv = @ + 1]]

(***************************************************************************)
(* ConfigAddString when one of its allocations fails.  fail names the      *)
(* allocation that returns NULL: "sect" (calloc of the section), "name"    *)
(* (strdup of its name), "kv" (calloc of the entry), "key" (strdup of the  *)
(* key), "value" (malloc of the value copy).  A store through the NULL     *)
(* result ends the process.                                                *)
(***************************************************************************)
Allocs(c, section, key) ==
    (IF ConfigGetSection(c, section) = 0
     THEN {"sect"} \cup (IF section # NULLSTR THEN {"name"} ELSE {})
     ELSE {})
    \cup (IF LookupRet(c, section, key) # CONFIG_RET_OK THEN {"kv", "key"} ELSE {})
    \cup {"value"}

ConfigAddSectionFail(c, section, fail) ==
    IF IsNullCfg(c)
    THEN [ret |-> CONFIG_ERR_INVALID_PARAM, cfg |-> c, sect |-> 0]
    ELSE IF ConfigGetSection(c, section) # 0
    THEN [ret |-> CONFIG_RET_OK, cfg |-> c, sect |-> ConfigGetSection(c, section)]
    ELSE IF fail = "sect" \/ (fail = "name" /\ section # NULLSTR)
    THEN [ret |-> CONFIG_ERR_MEMALLOC, cfg |-> c, sect |-> 0]
    ELSE ConfigAddSection(c, section)

ConfigAddStringFail(c, section, key, value, fail) ==
    IF IsNullCfg(c) \/ key = NULLSTR \/ value = NULLSTR
    THEN [ret |-> CONFIG_ERR_INVALID_PARAM, cfg |-> c, crashed |-> FALSE]
    ELSE
    LET a  == ConfigAddSectionFail(c, section, fail)
        c1 == a.cfg
        sect == c1.sect_list[a.sect]
        kv == ConfigGetKeyValue(sect, key)
        v  == StoredValue(c1, value)
    IN  IF a.ret # CONFIG_RET_OK
        THEN [ret |-> a.ret, cfg |-> c1, crashed |-> FALSE]
        ELSE IF kv # 0
        THEN IF fail = "value"
             THEN [ret |-> "none",
                   cfg |-> [c1 EXCEPT
                            !.sect_list[a.sect].kv_list[kv].value = NULLSTR],
                   crashed |-> TRUE]
             ELSE [ret |-> CONFIG_RET_OK,
                   cfg |-> [c1 EXCEPT
                            !.sect_list[a.sect].kv_list[kv].value = v],
                   crashed |-> FALSE]
        ELSE IF fail = "kv"
        THEN [ret |-> "none", cfg |-> c1, crashed |-> TRUE]
        ELSE [ret |-> IF fail = "value" THEN "none" ELSE CONFIG_RET_OK,
              cfg |-> [c1 EXCEPT
                       !.sect_list[a.sect].kv_list =
                           Append(@, [key   |-> IF fail = "key"
                                                THEN NULLSTR ELSE key,
                                      value |-> IF fail = "value"
                                                THEN NULLSTR ELSE v]),
                       !.sect_list[a.sect].numofkv = @ + 1],
              crashed |-> (fail = "value")]

RemoveAt(seq, i) == SubSeq(seq, 1, i - 1) \o SubSeq(seq, i + 1, Len(seq))

\* a variant that drops a section with its last key
ConfigRemoveKeyPrune(c, section, key) ==
    IF IsNullCfg(c) \/ key = NULLSTR
    THEN [ret |-> CONFIG_ERR_INVALID_PARAM, cfg |-> c]
    ELSE IF LookupRet(c, section, key) # CONFIG_RET_OK
    THEN [ret |-> LookupRet(c, section, key), cfg |-> c]
    ELSE LET s == ConfigGetSection(c, section)
             k == ConfigGetKeyValue(c.sect_list[s], key)
         IN  IF c.sect_list[s].numofkv = 1
             THEN [ret |-> CONFIG_RET_OK,
                   cfg |-> [c EXCEPT !.sect_list = RemoveAt(@, s),
                                     !.numofsect = @ - 1]]
             ELSE [ret |-> CONFIG_RET_OK,
                   cfg |-> [c EXCEPT !.sect_list[s].kv_list = RemoveAt(@, k),
                                     !.sect_list[s].numofkv = @ - 1]]

ConfigRemoveKey(c, section, key) ==
    IF IsNullCfg(c) \/ key = NULLSTR
    THEN [ret |-> CONFIG_ERR_INVALID_PARAM, cfg |-> c]
    ELSE IF LookupRet(c, section, key) # CONFIG_RET_OK
    THEN [ret |-> LookupRet(c, section, key), cfg |-> c]
    ELSE LET s == ConfigGetSection(c, section)
             k == ConfigGetKeyValue(c.sect_list[s], key)
         IN  [ret |-> CONFIG_RET_OK,
              cfg |-> [c EXCEPT !.sect_list[s].kv_list = RemoveAt(@, k),
                                !.sect_list[s].numofkv = @ - 1]]

ConfigRemoveSection(c, section) ==
    IF IsNullCfg(c) THEN [ret |-> CONFIG_ERR_INVALID_PARAM, cfg |-> c]
    ELSE IF ConfigGetSection(c, section) = 0
    THEN [ret |-> CONFIG_ERR_NO_SECTION, cfg |-> c]
    ELSE [ret |-> CONFIG_RET_OK,
          cfg |-> [c EXCEPT
                   !.sect_list = RemoveAt(@, ConfigGetSection(c, section)),
                   !.numofsect = @ - 1]]

ConfigNew ==
    ConfigAddSection(
        [comment_chars |-> COMMENT_CHARS, keyval_sep |-> KEYVAL_SEP,
         true_str |-> STR_TRUE, false_str |-> STR_FALSE,
         initnum |-> CONFIG_INIT_MAGIC, numofsect |-> 0, sect_list |-> <<>>],
        CONFIG_SECTNAME_DEFAULT).cfg

\* a variant that also cuts every stored value at the new comment characters
ConfigSetCommentCharsetRescan(c, comment_ch) ==
    IF IsNullCfg(c) \/ comment_ch = NULLSTR
    THEN [ret |-> CONFIG_ERR_INVALID_PARAM, cfg |-> c]
    ELSE LET cut(v) ==
                 LET stops == {i \in 1..Len(v) :
                                 \E j \in 1..Len(comment_ch) : comment_ch[j] = v[i]}
                 IN  IF stops = {} THEN v
                     ELSE SubSeq(v, 1, (CHOOSE i \in stops :
                                          \A j \in stops : i <= j) - 1)
         IN  [ret |-> CONFIG_RET_OK,
              cfg |-> [c EXCEPT
                  !.comment_chars = comment_ch,
                  !.sect_list =
                      [i \in 1..Len(c.sect_list) |->
                          [c.sect_list[i] EXCEPT !.kv_list =
                              [n \in 1..Len(c.sect_list[i].kv_list) |->
                                  [c.sect_list[i].kv_list[n] EXCEPT
                                      !.value = cut(@)]]]]]]

ConfigSetCommentCharset(c, comment_ch) ==
    IF IsNullCfg(c) \/ comment_ch = NULLSTR
    THEN [ret |-> CONFIG_ERR_INVALID_PARAM, cfg |-> c]
    ELSE [ret |-> CONFIG_RET_OK, cfg |-> [c EXCEPT !.comment_chars = comment_ch]]

ConfigSetKeyValSepChar(c, ch) ==
    IF IsNullCfg(c) THEN [ret |-> CONFIG_ERR_INVALID_PARAM, cfg |-> c]
    ELSE [ret |-> CONFIG_RET_OK, cfg |-> [c EXCEPT !.keyval_sep = ch]]

ConfigSetBoolString(c, true_str, false_str) ==
    IF \/ IsNullCfg(c)
       \/ true_str = NULLSTR \/ true_str = <<>>
       \/ false_str = NULLSTR \/ false_str = <<>>
    THEN [ret |-> CONFIG_ERR_INVALID_PARAM, cfg |-> c]
    ELSE [ret |-> CONFIG_RET_OK,
          cfg |-> [c EXCEPT !.true_str = true_str, !.false_str = false_str]]

(***************************************************************************)
(* Numeric conversion (strtol, strtoul, strtod, strtof of the C library,   *)
(* LP64: 32-bit int, 64-bit long).  A 32-bit word is kept as two 16-bit    *)
(* halves so that the casts to int and unsigned int wrap as in C.          *)
(***************************************************************************)
Digits == <<"0", "1", "2", "3", "4", "5", "6", "7", "8", "9">>

DigitVal(ch) == (CHOOSE i \in 1..10 : Digits[i] = ch) - 1

Half == 65536

LONG_MAX_DIGITS ==
    <<"9","2","2","3","3","7","2","0","3","6","8","5","4","7","7","5","8","0","7">>
LONG_MIN_DIGITS ==
    <<"9","2","2","3","3","7","2","0","3","6","8","5","4","7","7","5","8","0","8">>
ULONG_MAX_DIGITS ==
    <<"1","8","4","4","6","7","4","4","0","7","3","7","0","9","5","5","1","6","1","5">>

\* end of the run of digits starting at q
RECURSIVE ScanDigits(_, _)
ScanDigits(s, q) == IF isdigit(At(s, q)) THEN ScanDigits(s, q + 1) ELSE q

RECURSIVE StripZeros(_)
StripZeros(d) ==
    IF Len(d) > 0 /\ d[1] = "0" THEN StripZeros(Tail(d)) ELSE d

\* a > b for digit strings without leading zeros
RECURSIVE DigitsGreater(_, _)
DigitsGreater(a, b) ==
    IF Len(a) # Len(b) THEN Len(a) > Len(b)
    ELSE IF Len(a) = 0 THEN FALSE
    ELSE IF a[1] # b[1] THEN DigitVal(a[1]) > DigitVal(b[1])
    ELSE DigitsGreater(Tail(a), Tail(b))

\* the low 32 bits of the number written by the digits d, on top of w
\* (the next word is bound to n so that it is computed once)
RECURSIVE Low32(_, _)
Low32(d, w) ==
    IF d = <<>> THEN w
    ELSE LET lo == w.lo * 10 + DigitVal(d[1])
         IN  Low32(Tail(d), [hi |-> (w.hi * 10 + lo \div Half) % Half,
                             lo |-> lo % Half])

Word0 == [hi |-> 0, lo |-> 0]
WordMax == [hi |-> Half - 1, lo |-> Half - 1]

\* two's complement negation of a 32-bit word
Negate32(w) ==
    IF w.lo = 0 THEN [hi |-> (Half - w.hi) % Half, lo |-> 0]
    ELSE [hi |-> Half - 1 - w.hi, lo |-> Half - w.lo]

\* the 32-bit word as a signed int
AsInt(w) ==
    IF w.hi >= Half \div 2 THEN (w.hi - Half) * Half + w.lo
    ELSE w.hi * Half + w.lo

\* the syntax shared by strtol and strtoul: white space, sign, digits
ScanInteger(s) ==
    LET p    == SkipSpace(s, 1)
        neg  == At(s, p) = "-"
        d0   == IF At(s, p) \in {"-", "+"} THEN p + 1 ELSE p
        d1   == ScanDigits(s, d0)
    IN  [neg |-> neg, digits |-> StripZeros(Sub(s, d0, d1)),
         \* no digits: nothing is converted and endptr is the start
         endp |-> IF d1 = d0 THEN 1 ELSE d1]

\* (int) strtol(s, &p, 10)
strtol(s) ==
    LET n   == ScanInteger(s)
        big == DigitsGreater(n.digits,
                             IF n.neg THEN LONG_MIN_DIGITS ELSE LONG_MAX_DIGITS)
        w   == IF big THEN (IF n.neg THEN Word0 ELSE WordMax)
               ELSE IF n.neg THEN Negate32(Low32(n.digits, Word0))
               ELSE Low32(n.digits, Word0)
    IN  [val |-> AsInt(w), rest |-> Sub(s, n.endp, Len(s) + 1), erange |-> big]

\* (unsigned int) strtoul(s, &p, 10), as a 32-bit word
strtoul(s) ==
    LET n   == ScanInteger(s)
        big == DigitsGreater(n.digits, ULONG_MAX_DIGITS)
        w   == IF big THEN WordMax
               ELSE IF n.neg THEN Negate32(Low32(n.digits, Word0))
               ELSE Low32(n.digits, Word0)
    IN  [val |-> w, rest |-> Sub(s, n.endp, Len(s) + 1), erange |-> big]

RECURSIVE StripTrailingZeros(_)
StripTrailingZeros(d) ==
    IF Len(d) > 0 /\ d[Len(d)] = "0"
    THEN StripTrailingZeros(SubSeq(d, 1, Len(d) - 1))
    ELSE d

\* a floating-point value as its decimal expansion
Real(neg, int, frac) ==
    [neg |-> neg /\ (StripZeros(int) # <<>> \/ StripTrailingZeros(frac) # <<>>),
     int |-> StripZeros(int), frac |-> StripTrailingZeros(frac)]

\* strtod(s, &p) / strtof(s, &p) on decimal input: white space, sign,
\* digits, optional point and digits.  Exponents, hexadecimal, "inf" and
\* "nan" need the letters e, x, i, n after what is scanned here.
strtod(s) ==
    LET p    == SkipSpace(s, 1)
        neg  == At(s, p) = "-"
        i0   == IF At(s, p) \in {"-", "+"} THEN p + 1 ELSE p
        i1   == ScanDigits(s, i0)
        f0   == IF At(s, i1) = "." THEN i1 + 1 ELSE i1
        f1   == ScanDigits(s, f0)
        none == (i1 = i0) /\ (f1 = f0)
        endp == IF none THEN 1 ELSE f1
    IN  [val |-> IF none THEN Real(FALSE, <<>>, <<>>)
                 ELSE Real(neg, Sub(s, i0, i1), Sub(s, f0, f1)),
         rest |-> Sub(s, endp, Len(s) + 1), erange |-> FALSE]

(***************************************************************************)
(* Typed accessors.  A reader yields the status, the content of the output *)
(* variable after the call (old is its content before) and errno.          *)
(***************************************************************************)
\* nd is the outcome of StrSafeCpy reading a null default
ConfigReadString(c, section, key, old, size, dfl_value, nd) ==
    IF IsNullCfg(c) \/ key = NULLSTR \/ size < 1
    THEN [ret |-> CONFIG_ERR_INVALID_PARAM, out |-> old, crashed |-> FALSE]
    ELSE IF LookupRet(c, section, key) # CONFIG_RET_OK
    THEN [ret |-> LookupRet(c, section, key),
          out |-> IF dfl_value # NULLSTR THEN StrSafeCpy(dfl_value, size)
                  ELSE IF nd = "zero" \/ size = 1 THEN <<>> ELSE <<"?">>,
          crashed |-> (dfl_value = NULLSTR /\ nd = "SIGSEGV")]
    ELSE [ret |-> CONFIG_RET_OK,
          out |-> SnprintfS(LookupValue(c, section, key), size),
          crashed |-> FALSE]

\* the conversion a numeric reader calls, by its name
Convert(conv, s) ==
    CASE conv = "strtol"  -> strtol(s)
      [] conv = "strtoul" -> strtoul(s)
      [] conv = "strtod"  -> strtod(s)

\* the part shared by the four numeric readers; conv names the conversion
NumericRead(c, section, key, old, dfl_value, e, conv) ==
    IF IsNullCfg(c) \/ key = NULLSTR
    THEN [ret |-> CONFIG_ERR_INVALID_PARAM, out |-> old, errno |-> e]
    ELSE IF LookupRet(c, section, key) # CONFIG_RET_OK
    THEN [ret |-> LookupRet(c, section, key), out |-> dfl_value, errno |-> e]
    ELSE LET r  == Convert(conv, LookupValue(c, section, key))
             e1 == IF r.erange THEN ERANGE ELSE e
         IN  [ret |-> IF r.rest # <<>> \/ e1 = ERANGE
                      THEN CONFIG_ERR_INVALID_VALUE ELSE CONFIG_RET_OK,
              out |-> r.val, errno |-> e1]

ConfigReadInt(c, section, key, old, dfl_value, e) ==
    NumericRead(c, section, key, old, dfl_value, e, "strtol")

ConfigReadUnsignedInt(c, section, key, old, dfl_value, e) ==
    NumericRead(c, section, key, old, dfl_value, e, "strtoul")

ConfigReadFloat(c, section, key, old, dfl_value, e) ==
    NumericRead(c, section, key, old, dfl_value, e, "strtod")

ConfigReadDouble(c, section, key, old, dfl_value, e) ==
    NumericRead(c, section, key, old, dfl_value, e, "strtod")

ConfigReadBool(c, section, key, old, dfl_value) ==
    IF IsNullCfg(c) \/ key = NULLSTR
    THEN [ret |-> CONFIG_ERR_INVALID_PARAM, out |-> old]
    ELSE IF LookupRet(c, section, key) # CONFIG_RET_OK
    THEN [ret |-> LookupRet(c, section, key), out |-> dfl_value]
    ELSE LET v == LookupValue(c, section, key)
         IN  IF \/ strcasecmp0(v, <<"t","r","u","e">>)
                \/ strcasecmp0(v, <<"y","e","s">>)
                \/ strcasecmp0(v, <<"1">>)
             THEN [ret |-> CONFIG_RET_OK, out |-> TRUE]
             ELSE IF \/ strcasecmp0(v, <<"f","a","l","s","e">>)
                     \/ strcasecmp0(v, <<"n","o">>)
                     \/ strcasecmp0(v, <<"0">>)
             THEN [ret |-> CONFIG_RET_OK, out |-> FALSE]
             ELSE [ret |-> CONFIG_ERR_INVALID_VALUE, out |-> dfl_value]

\* the 32-bit word of an int
IntWord(v) ==
    IF v >= 0 THEN [hi |-> v \div Half, lo |-> v % Half]
    ELSE [hi |-> (v \div Half) + Half, lo |-> v % Half]

\* "%u" of a 32-bit word
RECURSIVE FormatU(_)
FormatU(w) ==
    LET r   == (w.hi % 10) * Half + w.lo
        dig == <<Digits[(r % 10) + 1]>>
        q   == [hi |-> w.hi \div 10, lo |-> r \div 10]
    IN  IF q = Word0 THEN dig ELSE FormatU(q) \o dig

\* "%d" of an int
FormatD(v) ==
    IF v < 0 THEN <<"-">> \o FormatU(Negate32(IntWord(v)))
    ELSE FormatU(IntWord(v))

\* "%f" of a value with at most six decimals
FormatF(x) ==
    LET pad == [i \in 1..6 |-> IF i <= Len(x.frac) THEN x.frac[i] ELSE "0"]
    IN  (IF x.neg THEN <<"-">> ELSE <<>>)
        \o (IF x.int = <<>> THEN <<"0">> ELSE x.int) \o <<".">> \o pad

ConfigAddInt(c, section, key, value) ==
    ConfigAddString(c, section, key, FormatD(value))

ConfigAddUnsignedInt(c, section, key, value) ==
    ConfigAddString(c, section, key, FormatU(value))

ConfigAddFloat(c, section, key, value) ==
    ConfigAddString(c, section, key, FormatF(value))

ConfigAddDouble(c, section, key, value) ==
    ConfigAddString(c, section, key, FormatF(value))

\* nd is the outcome of reading cfg->true_str through a null handle
ConfigAddBool(c, section, key, value, nd) ==
    IF IsNullCfg(c)
    THEN [ret |-> CONFIG_ERR_INVALID_PARAM, cfg |-> c,
          crashed |-> (nd = "SIGSEGV")]
    ELSE LET r == ConfigAddString(c, section, key,
                                  IF value THEN c.true_str ELSE c.false_str)
         IN  [ret |-> r.ret, cfg |-> r.cfg, crashed |-> FALSE]

(***************************************************************************)
(* Text scanner                                                            *)
(***************************************************************************)
\* char buf[4096] of ConfigRead
BUFSIZE == 4096

\* GetSectName on the buffer, p the position of the first character
GetSectName(c, buf, p0) ==
    IF At(buf, p0) = NUL THEN [ret |-> CONFIG_ERR_INVALID_PARAM, section |-> NULLSTR]
    ELSE
    LET p1 == SkipSpace(buf, p0)
        p  == SkipSpace(buf, p1 + 1)
        q0 == ScanToken(buf, p, "]", c.comment_chars)
        r  == SkipSpace(buf, q0 + 1)
        q  == TrimBack(buf, q0, p)
    IN  IF At(buf, p1) # "[" THEN [ret |-> CONFIG_ERR_PARSING, section |-> NULLSTR]
        ELSE IF At(buf, q0) # "]"
        THEN [ret |-> CONFIG_ERR_PARSING, section |-> NULLSTR]
        ELSE IF q = p THEN [ret |-> CONFIG_ERR_PARSING, section |-> NULLSTR]
        ELSE IF At(buf, r) # NUL /\ ~strchr(c.comment_chars, At(buf, r))
        THEN [ret |-> CONFIG_ERR_PARSING, section |-> Sub(buf, p, q)]
        ELSE [ret |-> CONFIG_RET_OK, section |-> Sub(buf, p, q)]

\* GetKeyVal on the buffer, p the position of the first character
\* a variant that takes an empty value for a value
GetKeyValLax(c, buf, p0) ==
    IF At(buf, p0) = NUL
    THEN [ret |-> CONFIG_ERR_INVALID_PARAM, key |-> NULLSTR, val |-> NULLSTR]
    ELSE
    LET p  == SkipSpace(buf, p0)
        q0 == ScanToken(buf, p, c.keyval_sep, c.comment_chars)
        q  == TrimBack(buf, q0, p)
        v  == SkipSpace(buf, q0 + 1)
        w0 == ScanToken(buf, v, NUL, c.comment_chars)
        w  == TrimBack(buf, w0, v)
    IN  IF At(buf, q0) # c.keyval_sep
        THEN [ret |-> CONFIG_ERR_PARSING, key |-> NULLSTR, val |-> NULLSTR]
        ELSE IF q = p
        THEN [ret |-> CONFIG_ERR_PARSING, key |-> NULLSTR, val |-> NULLSTR]
        ELSE [ret |-> CONFIG_RET_OK, key |-> Sub(buf, p, q), val |-> Sub(buf, v, w)]

GetKeyVal(c, buf, p0) ==
    IF At(buf, p0) = NUL
    THEN [ret |-> CONFIG_ERR_INVALID_PARAM, key |-> NULLSTR, val |-> NULLSTR]
    ELSE
    LET p  == SkipSpace(buf, p0)
        q0 == ScanToken(buf, p, c.keyval_sep, c.comment_chars)
        q  == TrimBack(buf, q0, p)
        v  == SkipSpace(buf, q0 + 1)
        w0 == ScanToken(buf, v, NUL, c.comment_chars)
        w  == TrimBack(buf, w0, v)
    IN  IF At(buf, q0) # c.keyval_sep
        THEN [ret |-> CONFIG_ERR_PARSING, key |-> NULLSTR, val |-> NULLSTR]
        ELSE IF q = p
        THEN [ret |-> CONFIG_ERR_PARSING, key |-> NULLSTR, val |-> NULLSTR]
        ELSE IF w = v
        THEN [ret |-> CONFIG_ERR_INVALID_VALUE, key |-> Sub(buf, p, q),
              val |-> NULLSTR]
        ELSE [ret |-> CONFIG_RET_OK, key |-> Sub(buf, p, q), val |-> Sub(buf, v, w)]

\* fgets(buf, sizeof(buf), fp) at position pos of the stream: the line (NULLSTR
\* when nothing could be read), the new position and the end-of-file flag
fgets(data, pos) ==
    LET avail == Len(data) - pos + 1
        most  == IF avail < BUFSIZE - 1 THEN avail ELSE BUFSIZE - 1
        nl    == {i \in pos..(pos + most - 1) : data[i] = "\n"}
        stop  == IF nl = {} THEN pos + most
                 ELSE (CHOOSE i \in nl : \A j \in nl : i <= j) + 1
    IN  IF avail <= 0 THEN [line |-> NULLSTR, pos |-> pos, eof |-> TRUE]
        ELSE [line |-> Sub(data, pos, stop), pos |-> stop,
              eof |-> (nl = {} /\ avail < BUFSIZE - 1)]

\* one iteration of the while loop of ConfigRead after fgets returned g,
\* with the current section pointer sect (0 is NULL); nd is the outcome of
\* reading sect->name through a null section pointer.  It yields either
\* the result of the call or the state of the next iteration.
ReadIteration(c, sect, g, nd) ==
    LET buf == g.line
        p   == SkipSpace(buf, 1)
        again(c1, s1) == [go |-> TRUE, cfg |-> c1, sect |-> s1,
                          pos |-> g.pos, eof |-> g.eof]
        done(ret, c1, dead) == [go |-> FALSE, ret |-> ret, cfg |-> c1,
                                crashed |-> dead]
    IN  IF buf = NULLSTR THEN again(c, sect)
        ELSE IF At(buf, p) = NUL \/ strchr(c.comment_chars, At(buf, p))
        THEN again(c, sect)
        ELSE IF At(buf, p) = "["
        THEN LET sn == GetSectName(c, buf, p)
                 a  == ConfigAddSection(c, sn.section)
             IN  IF sn.ret # CONFIG_RET_OK THEN done(sn.ret, c, FALSE)
                 ELSE IF a.ret # CONFIG_RET_OK THEN done(a.ret, a.cfg, FALSE)
                 ELSE again(a.cfg, a.sect)
        ELSE LET kv == GetKeyVal(c, buf, p)
                 nm == IF sect # 0 THEN c.sect_list[sect].name ELSE NULLSTR
                 a  == ConfigAddString(c, nm, kv.key, kv.val)
             IN  IF kv.ret # CONFIG_RET_OK THEN done(kv.ret, c, FALSE)
                 ELSE IF sect = 0 /\ nd # "zero"
                 THEN done(CONFIG_RET_OK, c, TRUE)
                 ELSE IF a.ret # CONFIG_RET_OK THEN done(a.ret, a.cfg, FALSE)
                 ELSE again(a.cfg, sect)

\* the while loop of ConfigRead, from position pos of a stream whose reads
\* do not fail
RECURSIVE ReadLoop(_, _, _, _, _, _)
ReadLoop(c, sect, data, pos, eof, nd) ==
    IF eof THEN [ret |-> CONFIG_RET_OK, cfg |-> c, crashed |-> FALSE]
    ELSE
    LET iter == ReadIteration(c, sect, fgets(data, pos), nd)
    IN  IF iter.go
        THEN ReadLoop(iter.cfg, iter.sect, data, iter.pos, iter.eof, nd)
        ELSE [ret |-> iter.ret, cfg |-> iter.cfg, crashed |-> iter.crashed]

\* fgets on a stream whose reads fail from position failat on (0: never):
\* the failed read returns NULL and sets the error indicator of the
\* stream, not its end-of-file indicator
fgetsError(data, pos, failat) ==
    IF failat # 0 /\ pos >= failat
    THEN [line |-> NULLSTR, pos |-> pos, eof |-> FALSE]
    ELSE fgets(data, pos)

ConfigFree(c) == NULLCFG

\* a variant of the exit that hands every store back, also one that
\* ConfigRead made itself and that holds the lines ahead of an error
ReadExitKeep(newcfg, r) == r

\* the exit of ConfigRead: r is what the loop ended with; on an error a store
\* that ConfigRead itself made is freed and the handle stays null
ReadExit(newcfg, r) ==
    IF r.ret # CONFIG_RET_OK /\ newcfg /\ ~r.crashed
    THEN [ret |-> r.ret, cfg |-> ConfigFree(r.cfg), crashed |-> FALSE]
    ELSE r

\* ConfigRead(fp, &handle): data is the content of the stream, c the handle
ConfigRead(c, data, nd) ==
    IF ~IsNullCfg(c) /\ c.initnum # CONFIG_INIT_MAGIC
    THEN [ret |-> CONFIG_ERR_INVALID_PARAM, cfg |-> c, crashed |-> FALSE]
    ELSE ReadExit(IsNullCfg(c),
                  ReadLoop(IF IsNullCfg(c) THEN ConfigNew ELSE c,
                           0, data, 1, FALSE, nd))

(***************************************************************************)
(* Serializer                                                              *)
(***************************************************************************)
RECURSIVE PrintEntries(_)
PrintEntries(kvs) ==
    IF kvs = <<>> THEN <<>>
    ELSE kvs[1].key \o <<"=">> \o kvs[1].value \o <<"\n">>
         \o PrintEntries(Tail(kvs))

RECURSIVE PrintSections(_)
PrintSections(sects) ==
    IF sects = <<>> THEN <<>>
    ELSE (IF sects[1].name # NULLSTR
          THEN <<"[">> \o sects[1].name \o <<"]", "\n">> ELSE <<>>)
         \o PrintEntries(sects[1].kv_list) \o <<"\n">>
         \o PrintSections(Tail(sects))

\* ConfigPrint(cfg, stream): the status and the text written to the stream
ConfigPrint(c) ==
    IF IsNullCfg(c) THEN [ret |-> CONFIG_ERR_INVALID_PARAM, text |-> <<>>]
    ELSE [ret |-> CONFIG_RET_OK, text |-> PrintSections(c.sect_list)]

(***************************************************************************)
(* The callers: what they pass to the library                              *)
(***************************************************************************)
Sections == {NULLSTR, <<"A">>, <<"B">>}
Keys == {<<"k">>, <<"x">>}
StoreValues == {<<"v">>, <<"w">>}

RECURSIVE SumKv(_)
SumKv(sects) ==
    IF sects = <<>> THEN 0 ELSE sects[1].numofkv + SumKv(Tail(sects))

\* the call ConfigAdd*(cfg, s, k, ..) stays within the bound on entries
Room(s, k) ==
    \/ LookupRet(cfg, s, k) = CONFIG_RET_OK
    \/ SumKv(cfg.sect_list) < MaxEntries


Init ==
    /\ cfg = ConfigNew
    /\ errno = "0"
    /\ crashed = FALSE
    /\ last = [op |-> "ConfigNew"]

(***************************************************************************)
(* One action per API call                                                 *)
(***************************************************************************)
CallAddString(S, K, V) ==
    \E s \in S, k \in K, v \in V :
        LET r == ConfigAddString(cfg, s, k, v)
        IN  /\ ~crashed /\ Room(s, k)
            /\ cfg' = r.cfg
            /\ last' = [op |-> "ConfigAddString", section |-> s, key |-> k,
                        value |-> v, ret |-> r.ret]
            /\ UNCHANGED <<errno, crashed>>

CallAddStringFail(S, K, V) ==
    \E s \in S, k \in K, v \in V :
      \E fail \in Allocs(cfg, s, k) :
        \E r \in {ConfigAddStringFail(cfg, s, k, v, fail)} :
            /\ ~crashed /\ Room(s, k)
            /\ cfg' = r.cfg
            /\ crashed' = r.crashed
            /\ last' = [op |-> "ConfigAddString", section |-> s, key |-> k,
                        value |-> v, fail |-> fail, ret |-> r.ret]
            /\ UNCHANGED errno

CallAddInt(S, K, V) ==
    \E s \in S, k \in K, v \in V :
        LET r == ConfigAddInt(cfg, s, k, v)
        IN  /\ ~crashed /\ Room(s, k)
            /\ cfg' = r.cfg
            /\ last' = [op |-> "ConfigAddInt", section |-> s, key |-> k,
                        value |-> v, ret |-> r.ret]
            /\ UNCHANGED <<errno, crashed>>

CallAddUnsignedInt(S, K, V) ==
    \E s \in S, k \in K, v \in V :
        LET r == ConfigAddUnsignedInt(cfg, s, k, v)
        IN  /\ ~crashed /\ Room(s, k)
            /\ cfg' = r.cfg
            /\ last' = [op |-> "ConfigAddUnsignedInt", section |-> s, key |-> k,
                        value |-> v, ret |-> r.ret]
            /\ UNCHANGED <<errno, crashed>>

CallAddFloat(S, K, V) ==
    \E s \in S, k \in K, v \in V :
        LET r == ConfigAddFloat(cfg, s, k, v)
        IN  /\ ~crashed /\ Room(s, k)
            /\ cfg' = r.cfg
            /\ last' = [op |-> "ConfigAddFloat", section |-> s, key |-> k,
                        value |-> v, ret |-> r.ret]
            /\ UNCHANGED <<errno, crashed>>

CallAddDouble(S, K, V) ==
    \E s \in S, k \in K, v \in V :
        LET r == ConfigAddDouble(cfg, s, k, v)
        IN  /\ ~crashed /\ Room(s, k)
            /\ cfg' = r.cfg
            /\ last' = [op |-> "ConfigAddDouble", section |-> s, key |-> k,
                        value |-> v, ret |-> r.ret]
            /\ UNCHANGED <<errno, crashed>>

CallAddBool(S, K) ==
    \E s \in S, k \in K, v \in BOOLEAN,
       nd \in (IF IsNullCfg(cfg) THEN NullDeref ELSE {"zero"}) :
        LET r == ConfigAddBool(cfg, s, k, v, nd)
        IN  /\ ~crashed /\ Room(s, k)
            /\ cfg' = r.cfg
            /\ crashed' = r.crashed
            /\ last' = [op |-> "ConfigAddBool", section |-> s, key |-> k,
                        value |-> v, ret |-> r.ret]
            /\ UNCHANGED errno

CallRemoveKey(S, K) ==
    \E s \in S, k \in K :
        LET r == ConfigRemoveKey(cfg, s, k)
        IN  /\ ~crashed
            /\ cfg' = r.cfg
            /\ last' = [op |-> "ConfigRemoveKey", section |-> s, key |-> k,
                        ret |-> r.ret]
            /\ UNCHANGED <<errno, crashed>>

CallRemoveSection(S) ==
    \E s \in S :
        LET r == ConfigRemoveSection(cfg, s)
        IN  /\ ~crashed
            /\ cfg' = r.cfg
            /\ last' = [op |-> "ConfigRemoveSection", section |-> s,
                        pre |-> cfg, ret |-> r.ret]
            /\ UNCHANGED <<errno, crashed>>

CallGetSectionCount ==
    \E nd \in (IF cfg.sect_list = <<>> THEN NullDeref ELSE {"zero"}) :
        LET r == ConfigGetSectionCount(cfg, nd)
        IN  /\ ~crashed
            /\ crashed' = r.crashed
            /\ last' = [op |-> "ConfigGetSectionCount", ret |-> r.ret]
            /\ UNCHANGED <<cfg, errno>>

CallGetKeyCount(S) ==
    \E s \in S :
        /\ ~crashed
        /\ last' = [op |-> "ConfigGetKeyCount", section |-> s,
                    ret |-> ConfigGetKeyCount(cfg, s)]
        /\ UNCHANGED <<cfg, errno, crashed>>

CallHasSection(S) ==
    \E s \in S :
        /\ ~crashed
        /\ last' = [op |-> "ConfigHasSection", section |-> s,
                    ret |-> ConfigHasSection(cfg, s)]
        /\ UNCHANGED <<cfg, errno, crashed>>

CallSetCommentCharset(C) ==
    \E cc \in C :
        LET r == ConfigSetCommentCharset(cfg, cc)
        IN  /\ ~crashed
            /\ cfg' = r.cfg
            /\ last' = [op |-> "ConfigSetCommentCharset", value |-> cc,
                        ret |-> r.ret]
            /\ UNCHANGED <<errno, crashed>>

CallSetKeyValSepChar(C) ==
    \E ch \in C :
        LET r == ConfigSetKeyValSepChar(cfg, ch)
        IN  /\ ~crashed
            /\ cfg' = r.cfg
            /\ last' = [op |-> "ConfigSetKeyValSepChar", value |-> ch,
                        ret |-> r.ret]
            /\ UNCHANGED <<errno, crashed>>

CallSetBoolString(P) ==
    \E tf \in P :
        LET r == ConfigSetBoolString(cfg, tf[1], tf[2])
        IN  /\ ~crashed
            /\ cfg' = r.cfg
            /\ last' = [op |-> "ConfigSetBoolString", value |-> tf,
                        ret |-> r.ret]
            /\ UNCHANGED <<errno, crashed>>

\* what a reader's record keeps of the call before it: its record when
\* that call wrote the entry the reader looks up, "other" otherwise
After(s, k) ==
    IF /\ last.op \in {"ConfigAddString", "ConfigAddInt", "ConfigAddUnsignedInt",
                       "ConfigAddFloat", "ConfigAddDouble", "ConfigAddBool"}
       /\ last.section = s /\ last.key = k
    THEN last
    ELSE [op |-> "other"]

CallReadString(S, K, Z, D) ==
    \E s \in S, k \in K, size \in Z, d \in D :
      \E nd \in (IF d = NULLSTR THEN NullDeref ELSE {"zero"}) :
        LET r == ConfigReadString(cfg, s, k, <<"o", "l", "d">>, size, d, nd)
        IN  /\ ~crashed
            /\ crashed' = r.crashed
            /\ last' = [op |-> "ConfigReadString", section |-> s, key |-> k,
                        size |-> size, dfl |-> d, ret |-> r.ret, out |-> r.out,
                        after |-> After(s, k)]
            /\ UNCHANGED <<cfg, errno>>

CallReadInt(S, K, D) ==
    \E s \in S, k \in K, d \in D :
        LET r == ConfigReadInt(cfg, s, k, 0, d, errno)
        IN  /\ ~crashed
            /\ errno' = r.errno
            /\ last' = [op |-> "ConfigReadInt", section |-> s, key |-> k,
                        dfl |-> d, ret |-> r.ret, out |-> r.out,
                        after |-> After(s, k)]
            /\ UNCHANGED <<cfg, crashed>>

CallReadUnsignedInt(S, K, D) ==
    \E s \in S, k \in K, d \in D :
        LET r == ConfigReadUnsignedInt(cfg, s, k, Word0, d, errno)
        IN  /\ ~crashed
            /\ errno' = r.errno
            /\ last' = [op |-> "ConfigReadUnsignedInt", section |-> s, key |-> k,
                        dfl |-> d, ret |-> r.ret, out |-> r.out,
                        after |-> After(s, k)]
            /\ UNCHANGED <<cfg, crashed>>

CallReadFloat(S, K, D) ==
    \E s \in S, k \in K, d \in D :
        LET r == ConfigReadFloat(cfg, s, k, Real(FALSE, <<>>, <<>>), d, errno)
        IN  /\ ~crashed
            /\ errno' = r.errno
            /\ last' = [op |-> "ConfigReadFloat", section |-> s, key |-> k,
                        dfl |-> d, ret |-> r.ret, out |-> r.out,
                        after |-> After(s, k)]
            /\ UNCHANGED <<cfg, crashed>>

CallReadDouble(S, K, D) ==
    \E s \in S, k \in K, d \in D :
        LET r == ConfigReadDouble(cfg, s, k, Real(FALSE, <<>>, <<>>), d, errno)
        IN  /\ ~crashed
            /\ errno' = r.errno
            /\ last' = [op |-> "ConfigReadDouble", section |-> s, key |-> k,
                        dfl |-> d, ret |-> r.ret, out |-> r.out,
                        after |-> After(s, k)]
            /\ UNCHANGED <<cfg, crashed>>

CallReadBool(S, K) ==
    \E s \in S, k \in K, d \in BOOLEAN :
        LET r == ConfigReadBool(cfg, s, k, ~d, d)
        IN  /\ ~crashed
            /\ last' = [op |-> "ConfigReadBool", section |-> s, key |-> k,
                        dfl |-> d, ret |-> r.ret, out |-> r.out,
                        after |-> After(s, k)]
            /\ UNCHANGED <<cfg, errno, crashed>>

\* a store the caller has made with ConfigNew and given the settings of c
FreshLike(c) ==
    ConfigSetBoolString(
        ConfigSetKeyValSepChar(
            ConfigSetCommentCharset(ConfigNew, c.comment_chars).cfg,
            c.keyval_sep).cfg,
        c.true_str, c.false_str).cfg

\* ConfigPrint(cfg, stream) on a stream that starts empty
CallConfigPrint ==
    LET r == ConfigPrint(cfg)
    IN  /\ ~crashed
        /\ last' = [op |-> "ConfigPrint", ret |-> r.ret, text |-> r.text]
        /\ UNCHANGED <<cfg, errno, crashed>>

\* ConfigRead(fp, &handle) on a stream holding one of the files F, or the
\* text that the ConfigPrint call just before wrote.  The handle is the
\* caller's store ("cfg", while it is within the bound on entries), a null
\* handle ("NULL") or a second store made by ConfigNew with the settings of
\* the first ("fresh").
CallConfigRead(F, H) ==
    \E src \in {"file"} \cup (IF last.op = "ConfigPrint" THEN {"ConfigPrint"} ELSE {}),
       h \in H, nd \in NullDeref :
        \E data \in (IF src = "file" THEN F ELSE {last.text}),
           pre \in {CASE h = "cfg" -> cfg
                      [] h = "NULL" -> NULLCFG
                      [] OTHER -> FreshLike(cfg)} :
            \E r \in {ConfigRead(pre, data, nd)} :
                /\ ~crashed
                /\ h = "cfg" => SumKv(cfg.sect_list) < MaxEntries
                /\ cfg' = IF h = "cfg" THEN r.cfg ELSE cfg
                /\ crashed' = r.crashed
                /\ last' = [op |-> "ConfigRead", from |-> src, data |-> data,
                            handle |-> h, pre |-> pre, ret |-> r.ret,
                            cfg |-> r.cfg]
                /\ UNCHANGED errno

(***************************************************************************)
(* Spec: the value store under the calls that change and count it          *)
(***************************************************************************)
\* ConfigRead(fp, &cfg) step by step: the call is entered, then the while
\* loop runs one iteration at a time; last keeps the position of the call
Reading == last.op = "ConfigRead" /\ "pc" \in DOMAIN last /\ last.pc = "while"

ReadEnter(F, E) ==
    \E data \in F, failat \in E :
        /\ ~crashed /\ ~Reading
        /\ SumKv(cfg.sect_list) < MaxEntries
        /\ last' = [op |-> "ConfigRead", pc |-> "while", data |-> data,
                    failat |-> failat, pos |-> 1, eof |-> FALSE, sect |-> 0,
                    ret |-> "none"]
        /\ UNCHANGED <<cfg, errno, crashed>>

ReadIterate ==
    /\ ~crashed /\ Reading
    /\ IF last.eof
       THEN /\ last' = [last EXCEPT !.pc = "done", !.ret = CONFIG_RET_OK]
            /\ UNCHANGED <<cfg, errno, crashed>>
       ELSE \E nd \in NullDeref :
              \E it \in {ReadIteration(cfg, last.sect,
                                       fgetsError(last.data, last.pos,
                                                  last.failat), nd)} :
                /\ cfg' = it.cfg
                /\ crashed' = IF it.go THEN FALSE ELSE it.crashed
                /\ last' = IF it.go
                           THEN [last EXCEPT !.sect = it.sect, !.pos = it.pos,
                                             !.eof = it.eof]
                           ELSE [last EXCEPT !.pc = "done", !.ret = it.ret]
                /\ UNCHANGED errno

Next ==
    \/ CallAddString(Sections, Keys, StoreValues)
    \/ CallAddInt({<<"A">>}, {<<"k">>}, {7})
    \/ CallAddBool({NULLSTR}, {<<"x">>})
    \/ CallRemoveKey(Sections, Keys)
    \/ CallRemoveSection(Sections)
    \/ CallGetSectionCount
    \/ CallGetKeyCount(Sections)
    \/ CallHasSection(Sections)

Spec == Init /\ [][Next]_vars

(***************************************************************************)
(* SpecTyped: the typed writers and readers                                *)
(***************************************************************************)
TypedValues ==
    {<<"a", "b">>, <<"1", "2", "a">>, <<"1", "2">>, <<"1", ".", "5">>, <<"Y", "e", "s">>, <<"T", "R", "U", "E">>}
BoolStrings ==
    {<<<<"y","e","s">>, <<"n","o">>>>, <<<<"t","r","u","e">>, <<"f","a","l","s","e">>>>,
     <<<<"o","n">>, <<"o","f","f">>>>}
ReadSections == {<<"A">>, <<"B">>}
BufSizes == {1, 2, 8}
MinusOne == Real(TRUE, <<"1">>, <<>>)

NextTyped ==
    \/ CallAddString({<<"A">>}, {<<"k">>}, TypedValues)
    \/ CallAddInt({<<"A">>}, {<<"k">>}, {-7})
    \/ CallAddUnsignedInt({<<"A">>}, {<<"k">>}, {IntWord(7)})
    \/ CallAddFloat({<<"A">>}, {<<"k">>}, {Real(FALSE, <<"1">>, <<"5">>)})
    \/ CallAddDouble({<<"A">>}, {<<"k">>}, {Real(FALSE, <<"1","0","0">>, <<>>)})
    \/ CallAddBool({<<"A">>}, {<<"k">>})
    \/ CallSetBoolString(BoolStrings)
    \/ CallReadString(ReadSections, Keys, BufSizes, {<<"d", "f">>, NULLSTR})
    \/ CallReadInt(ReadSections, Keys, {-1})
    \/ CallReadUnsignedInt(ReadSections, Keys, {IntWord(9)})
    \/ CallReadFloat(ReadSections, Keys, {MinusOne})
    \/ CallReadDouble(ReadSections, Keys, {MinusOne})
    \/ CallReadBool(ReadSections, Keys)

SpecTyped == Init /\ [][NextTyped]_vars

(***************************************************************************)
(* SpecString: strings written by ConfigAddString and read back            *)
(***************************************************************************)
StringValues ==
    {<<"a", "b">>,
     <<" ", "a">>,
     <<"a", "#", "b">>,
     <<"a", ";", "b">>,
     <<"a", " ">>,
     <<"a", "\n", "b">>,
     <<"a", " ", "b">>,
     <<>>}

NextString ==
    \/ CallAddString({NULLSTR, <<"A">>}, {<<"k">>}, StringValues)
    \/ CallSetCommentCharset({<<";">>, <<"#", ";">>})
    \/ CallRemoveKey({<<"A">>}, {<<"k">>})
    \/ CallReadString({NULLSTR, <<"A">>}, Keys, BufSizes, {<<"d", "f">>})

SpecString == Init /\ [][NextString]_vars

(***************************************************************************)
(* SpecText: the scanner and the serializer                                *)
(***************************************************************************)
ExampleFile == <<"x", " ", "=", " ", "5", "\n", "[", "A", "]", "\n", "y", "=", "6", "\n">>
Files ==
    {ExampleFile,
     <<"[", "A", "]", "\n", "x", "=", "1", "\n", "\n", "[", "B", "]", "\n", "y", "=", "2", "\n">>,
     <<"[", "A", "]", "\n", "k", "=", "v", "\n", "b", "a", "d", " ", "l", "i", "n", "e", "\n", "x", "=", "1", "\n">>,
     <<"[", "A", "]", "\n", "k", " ", "=", " ", "\n">>,
     <<"[", " ", "A", " ", "]", " ", "#", " ", "c", "\n", " ", "k", " ", "=", " ", "v", " ", "#", " ", "c", "\n", "[", "B", "]", " ", "x", "\n">>,
     <<"[", "A", "]", "\n", "k", ":", "v">>}

NextText ==
    \/ CallAddString({NULLSTR, <<"A">>}, {<<"k">>}, {<<"v">>})
    \/ CallRemoveKey({<<"A">>}, {<<"k">>})
    \/ CallRemoveSection({NULLSTR})
    \/ CallSetKeyValSepChar({":"})
    \/ CallSetCommentCharset({<<";">>})
    \/ CallConfigPrint
    \/ CallConfigRead(Files, {"cfg", "NULL", "fresh"})

SpecText == Init /\ [][NextText]_vars

(***************************************************************************)
(* SpecLine: ConfigRead on streams of one key-value line                   *)
(***************************************************************************)
HeaderA == <<"[", "A", "]", "\n">>
KvLines ==
    {<<"k", " ", "v", "\n">>,
     <<"k", " ", "#", " ", "=", " ", "v", "\n">>,
     <<"k">>,
     <<"=", " ", "v", "\n">>,
     <<"k", " ", "=", "\n">>,
     <<"k", " ", "=", " ", "#", " ", "c", "\n">>,
     <<"k", " ", "=">>,
     <<"x", " ", "=", " ", "v", " ", "\n">>,
     <<"x", " ", "=", " ", "v", " ">>,
     <<"x", "=", "v", " ", "#", "c">>,
     <<"x", ":", "v", "\n">>}
LineFiles ==
    {HeaderA \o l : l \in KvLines}
    \cup {<<"k", " ", "v", "\n">>, <<"=", " ", "v", "\n">>,
          <<"[", " ", "B", " ", "]">>, <<"[", "B", " ", "]", " ", "#", "\n">>}

NextLine ==
    \/ CallAddString({<<"A">>}, {<<"k">>}, {<<"v">>})
    \/ CallSetKeyValSepChar({":"})
    \/ CallSetCommentCharset({<<";">>})
    \/ CallConfigRead(LineFiles, {"cfg", "NULL"})

SpecLine == Init /\ [][NextLine]_vars

(***************************************************************************)
(* SpecAdd: the six writers, with the removals                             *)
(***************************************************************************)
AddSections == {NULLSTR, <<"A">>}

NextAdd ==
    \/ CallAddString(AddSections, Keys, StoreValues)
    \/ CallAddInt(AddSections, {<<"k">>}, {7, -7})
    \/ CallAddUnsignedInt({<<"A">>}, {<<"k">>}, {IntWord(7)})
    \/ CallAddFloat({<<"A">>}, {<<"x">>}, {Real(FALSE, <<"1">>, <<"5">>)})
    \/ CallAddDouble({<<"A">>}, {<<"x">>}, {Real(FALSE, <<"1","0","0">>, <<>>)})
    \/ CallAddBool(AddSections, {<<"k">>})
    \/ CallRemoveKey(AddSections, Keys)
    \/ CallRemoveSection(AddSections)

SpecAdd == Init /\ [][NextAdd]_vars

(***************************************************************************)
(* SpecUnique: names and keys that differ in case only, written and read   *)
(***************************************************************************)
CaseFile ==
    <<"[", "A", "]", "\n", "k", "=", "w", "\n",
      "[", "a", "]", "\n", "K", "=", "w", "\n",
      "[", "A", "]", "\n", "k", "=", "v", "\n">>

NextUnique ==
    \/ CallAddString({NULLSTR, <<"A">>, <<"a">>}, {<<"k">>, <<"K">>}, {<<"v">>})
    \/ CallAddInt({<<"A">>}, {<<"k">>}, {7})
    \/ CallRemoveKey({<<"A">>}, {<<"k">>})
    \/ CallRemoveSection({NULLSTR, <<"A">>})
    \/ CallConfigRead({CaseFile}, {"cfg"})

SpecUnique == Init /\ [][NextUnique]_vars

(***************************************************************************)
(* SpecSettings: the settings changed while the store holds data           *)
(***************************************************************************)
SettingValues == {<<"v">>, <<"a", ";", "b">>, <<"a", ":", "b">>}

NextSettings ==
    \/ CallAddString({NULLSTR, <<"A">>}, Keys, SettingValues)
    \/ CallAddBool({<<"A">>}, {<<"k">>})
    \/ CallRemoveKey({<<"A">>}, {<<"k">>})
    \/ CallSetCommentCharset({<<";">>, <<"#">>, NULLSTR})
    \/ CallSetKeyValSepChar({":", "="})
    \/ CallSetBoolString({<<<<"y">>, <<"n">>>>, <<<<>>, <<"n">>>>,
                          <<<<"y">>, NULLSTR>>})
    \/ CallReadString({<<"A">>}, {<<"k">>}, {8}, {<<"d">>})

SpecSettings == Init /\ [][NextSettings]_vars

(***************************************************************************)
(* SpecAlloc: a caller that fills the store until an allocation fails and  *)
(* does not use the store after that                                       *)
(***************************************************************************)
NoFailure == "fail" \notin DOMAIN last

NextAlloc ==
    \/ NoFailure /\ CallAddString(AddSections, Keys, StoreValues)
    \/ NoFailure /\ CallRemoveKey(AddSections, Keys)
    \/ NoFailure /\ CallAddStringFail(AddSections, Keys, StoreValues)

SpecAlloc == Init /\ [][NextAlloc]_vars

(***************************************************************************)
(* SpecRange: decimal values around the limits of int and unsigned int     *)
(***************************************************************************)
RangeValues ==
    {<<"3", "0", "0", "0", "0", "0", "0", "0", "0", "0">>,
     <<"-", "3", "0", "0", "0", "0", "0", "0", "0", "0", "0">>,
     <<"-", "1">>,
     <<"4", "2", "9", "4", "9", "6", "7", "2", "9", "6">>,
     <<"1", "2">>,
     <<"9", "9", "9", "9", "9", "9", "9", "9", "9", "9", "9", "9", "9", "9", "9", "9", "9", "9", "9", "9">>}

NextRange ==
    \/ CallAddString({<<"A">>}, Keys, RangeValues)
    \/ CallRemoveKey({<<"A">>}, Keys)
    \/ CallReadInt({<<"A">>}, Keys, {-1})
    \/ CallReadUnsignedInt({<<"A">>}, Keys, {IntWord(9)})

SpecRange == Init /\ [][NextRange]_vars

(***************************************************************************)
(* SpecOrder: sections and keys written, removed and written again         *)
(***************************************************************************)
Named == {<<"A">>, <<"B">>}

NextOrder ==
    \/ CallAddString(Named, Keys, StoreValues)
    \/ CallRemoveKey(Named, Keys)
    \/ CallRemoveSection(Named)

SpecOrder == Init /\ [][NextOrder]_vars

(***************************************************************************)
(* SpecErrno: numeric reads before and after a conversion that overflows   *)
(***************************************************************************)
ErrnoValues == {<<"1", "2">>, <<"1", ".", "5">>,
                <<"9", "9", "9", "9", "9", "9", "9", "9", "9", "9", "9", "9", "9", "9", "9", "9", "9", "9", "9", "9">>}

NextErrno ==
    \/ CallAddString({<<"A">>}, Keys, ErrnoValues)
    \/ CallReadInt({<<"A">>}, Keys, {-1})
    \/ CallReadUnsignedInt({<<"A">>}, Keys, {IntWord(9)})
    \/ CallReadFloat({<<"A">>}, Keys, {MinusOne})
    \/ CallReadDouble({<<"A">>}, Keys, {MinusOne})

SpecErrno == Init /\ [][NextErrno]_vars

(***************************************************************************)
(* SpecLoop: ConfigRead run one loop iteration at a time, on streams whose *)
(* reads may fail.  The caller is inside ConfigRead until it returns.      *)
(***************************************************************************)
LoopFiles ==
    {<<"[", "A", "]", "\n", "k", "=", "w", "\n">>,
     <<"[", "A", "]", "\n", "x", "=", "w">>,
     <<"[", "B", "]", "\n", "#", "c", "\n", "k", "\n">>,
     <<"k", "=", "w", "\n">>}
FailAt == {0, 1, 5}

NextLoop ==
    \/ ~Reading /\ CallAddString({<<"A">>}, Keys, {<<"v">>})
    \/ ~Reading /\ CallRemoveKey({<<"A">>}, Keys)
    \/ ReadEnter(LoopFiles, FailAt)
    \/ ReadIterate

SpecLoop == Init /\ [][NextLoop]_vars

(***************************************************************************)
(* Claims about the value store (Spec)                                     *)
(***************************************************************************)
\* the sections of the store, the default section left out while it is empty
SectionsPresent(c) ==
    Cardinality({i \in 1..Len(c.sect_list) :
                    ~(c.sect_list[i].name = NULLSTR
                      /\ c.sect_list[i].kv_list = <<>>)})

\* C7: whenever ConfigGetSectionCount has been called, it returned without
\* a fault the number of sections present in the store, the default section
\* not counted while it holds no entry.
C7_SectionCountIsSectionsPresent ==
    last.op = "ConfigGetSectionCount" =>
        ~crashed /\ last.ret = SectionsPresent(cfg)

\* C8: a ConfigRemoveSection call on an existing section returns Ok, leaves
\* ConfigHasSection false for it, and makes ConfigGetSectionCount report
\* exactly one less than it reported before the call.
C8_RemoveSectionDecrementsCount ==
    [][(last'.op = "ConfigRemoveSection"
        /\ ConfigHasSection(cfg, last'.section))
       => /\ last'.ret = CONFIG_RET_OK
          /\ ~ConfigHasSection(cfg', last'.section)
          /\ \A before, after \in NullDeref :
                LET b == ConfigGetSectionCount(cfg, before)
                    a == ConfigGetSectionCount(cfg', after)
                IN  ~b.crashed /\ ~a.crashed /\ a.ret = b.ret - 1]_vars

(***************************************************************************)
(* Claims about the typed accessors (SpecString, SpecTyped)                *)
(***************************************************************************)
HasLineTerminator(v) == \E i \in 1..Len(v) : v[i] \in {"\n", "\r"}

\* the ConfigReadString call directly follows a ConfigAddString call on the
\* same section and key, with a buffer that can hold the value written
ReadBackCase ==
    /\ last.op = "ConfigReadString"
    /\ last.after.op = "ConfigAddString"
    /\ last.size > Len(last.after.value)

\* C3 as claimed: after ConfigAddString(cfg, s, k, v) with v free of line
\* terminators, ConfigReadString(cfg, s, k, buf, size, dfl) with
\* size > length(v) returns Ok and buf holds v exactly as written.
C3_ReadBackExactAsClaimed ==
    (ReadBackCase /\ ~HasLineTerminator(last.after.value))
    => last.ret = CONFIG_RET_OK /\ last.out = last.after.value

\* C3 amended: the same holds for every v that has no line terminator, no
\* character of the store's comment character set and no leading white
\* space (trailing white space is kept).
C3_ReadBackExact ==
    (/\ ReadBackCase
     /\ ~HasLineTerminator(last.after.value)
     /\ \A i \in 1..Len(last.after.value) :
            \A j \in 1..Len(cfg.comment_chars) :
                last.after.value[i] # cfg.comment_chars[j]
     /\ (last.after.value # <<>> => ~isspace(last.after.value[1])))
    => last.ret = CONFIG_RET_OK /\ last.out = last.after.value

\* a value with inner and trailing white space was written and read back
C3_Witness ==
    /\ ReadBackCase
    /\ last.ret = CONFIG_RET_OK
    /\ last.after.value = <<"a", " ">>
    /\ last.out = <<"a", " ">>

NumericReaders ==
    {"ConfigReadInt", "ConfigReadUnsignedInt", "ConfigReadFloat", "ConfigReadDouble"}

\* the entry a reader call looked up, as a set (empty when there is none)
StoredFor(l) ==
    {c.value : c \in
        UNION {{e \in {cfg.sect_list[i].kv_list[j] :
                         j \in 1..Len(cfg.sect_list[i].kv_list)} : e.key = l.key}
               : i \in {i \in 1..Len(cfg.sect_list) :
                          cfg.sect_list[i].name = l.section}}}

\* a C string that is a decimal number and nothing else
RECURSIVE AllDigits(_)
AllDigits(d) == d = <<>> \/ (isdigit(d[1]) /\ AllDigits(Tail(d)))

HasTrailingGarbage(v) ==
    \E n \in 1..(Len(v) - 1) :
        /\ AllDigits(SubSeq(v, 1, n))
        /\ ~isdigit(v[n + 1]) /\ v[n + 1] # "."

\* C4: a numeric reader called on a stored value that the conversion does
\* not consume to its end (digits followed by other text, such as "12abc")
\* returns InvalidValue and leaves the caller's default in the output.
C4_PartialParseLeavesDefault ==
    (/\ last.op \in NumericReaders
     /\ \E v \in StoredFor(last) : HasTrailingGarbage(v))
    => last.ret = CONFIG_ERR_INVALID_VALUE /\ last.out = last.dfl

\* C5: ConfigReadBool returns Ok and true (false) when the stored value is,
\* without regard to case, the configured true (false) literal or one of
\* true/yes/1 (false/no/0), and InvalidValue for any other stored value.
C5_BoolLiteralsAccepted ==
    (last.op = "ConfigReadBool" /\ StoredFor(last) # {})
    => \A v \in StoredFor(last) :
        LET t == \/ strcasecmp0(v, cfg.true_str)
                 \/ \E a \in {<<"t","r","u","e">>, <<"y","e","s">>, <<"1">>} :
                        strcasecmp0(v, a)
            f == \/ strcasecmp0(v, cfg.false_str)
                 \/ \E a \in {<<"f","a","l","s","e">>, <<"n","o">>, <<"0">>} :
                        strcasecmp0(v, a)
        IN  /\ t => (last.ret = CONFIG_RET_OK /\ last.out = TRUE)
            /\ f => (last.ret = CONFIG_RET_OK /\ last.out = FALSE)
            /\ (~t /\ ~f) => last.ret = CONFIG_ERR_INVALID_VALUE

Readers == NumericReaders \cup {"ConfigReadString", "ConfigReadBool"}

SectionAbsent(l) ==
    \A i \in 1..Len(cfg.sect_list) : cfg.sect_list[i].name # l.section

KeyAbsent(l) == ~SectionAbsent(l) /\ StoredFor(l) = {}

\* C10 as claimed: a reader called for an absent section returns NoSection,
\* for an absent key of an existing section NoKey, and in both cases the
\* output equals the caller's default.
C10_MissingGivesDefaultAsClaimed ==
    last.op \in Readers =>
        /\ SectionAbsent(last) =>
              (last.ret = CONFIG_ERR_NO_SECTION /\ last.out = last.dfl)
        /\ KeyAbsent(last) =>
              (last.ret = CONFIG_ERR_NO_KEY /\ last.out = last.dfl)

\* the output of a reader that fell back on the default: the default, for
\* ConfigReadString cut to the size - 1 characters the buffer can hold
DefaultOut(l) ==
    IF l.op = "ConfigReadString" /\ Len(l.dfl) > l.size - 1
    THEN [i \in 1..(l.size - 1) |-> l.dfl[i]]
    ELSE l.dfl

\* ConfigReadString was given a null pointer as its default
NullDefault(l) == l.op = "ConfigReadString" /\ l.dfl = NULLSTR

\* C10 amended: the statuses are as claimed; the output equals the default,
\* except that ConfigReadString stores only the first size - 1 characters
\* of a default that does not fit the buffer, and that it needs a default
\* that is a string (not a null pointer).
C10_MissingGivesDefault ==
    (last.op \in Readers /\ ~NullDefault(last)) =>
        /\ SectionAbsent(last) =>
              (last.ret = CONFIG_ERR_NO_SECTION /\ last.out = DefaultOut(last))
        /\ KeyAbsent(last) =>
              (last.ret = CONFIG_ERR_NO_KEY /\ last.out = DefaultOut(last))

\* ConfigReadString fell back on a default longer than its buffer
C10_Witness ==
    /\ last.op = "ConfigReadString"
    /\ KeyAbsent(last)
    /\ last.ret = CONFIG_ERR_NO_KEY
    /\ last.size = 2 /\ last.out = <<"d">>

(***************************************************************************)
(* Claims about the scanner and the serializer (SpecText)                  *)
(***************************************************************************)
\* C1: reading the lines 'x = 5', '[A]', 'y=6' with a null handle (a store
\* made by the call) returns Ok without a fault, with x=5 in the default
\* section, y=6 in section A, and the default section present.
C1_LinesBeforeHeaderInDefault ==
    (last.op = "ConfigRead" /\ last.from = "file"
     /\ last.data = ExampleFile /\ last.handle = "NULL")
    => /\ ~crashed
       /\ last.ret = CONFIG_RET_OK
       /\ ~IsNullCfg(last.cfg)
       /\ ConfigHasSection(last.cfg, NULLSTR)
       /\ LookupRet(last.cfg, NULLSTR, <<"x">>) = CONFIG_RET_OK
       /\ LookupValue(last.cfg, NULLSTR, <<"x">>) = <<"5">>
       /\ LookupRet(last.cfg, <<"A">>, <<"y">>) = CONFIG_RET_OK
       /\ LookupValue(last.cfg, <<"A">>, <<"y">>) = <<"6">>

\* the (section, key) -> value content of a store, as a set of triples
Mapping(c) ==
    UNION {{<<c.sect_list[i].name, c.sect_list[i].kv_list[j].key,
              c.sect_list[i].kv_list[j].value>> :
                j \in 1..Len(c.sect_list[i].kv_list)} :
           i \in 1..Len(c.sect_list)}

\* no value of the store holds a comment character or the separator
ValuesClean(c) ==
    \A e \in Mapping(c) : \A i \in 1..Len(e[3]) :
        e[3][i] # c.keyval_sep /\ ~strchr(c.comment_chars, e[3][i])

\* C2: when the text written by ConfigPrint for a store whose values hold
\* no comment character and no separator is read by ConfigRead into a
\* fresh store with the same settings, the read returns Ok without a fault
\* and the fresh store has exactly the (section, key) -> value content of
\* the printed one.
C2_PrintReadRoundTrip ==
    (last.op = "ConfigRead" /\ last.from = "ConfigPrint"
     /\ last.handle = "fresh" /\ ValuesClean(cfg))
    => /\ ~crashed
       /\ last.ret = CONFIG_RET_OK
       /\ Mapping(last.cfg) = Mapping(cfg)

\* line is a whole line of text
IsLineOf(line, text) ==
    \E i \in 1..(Len(text) - Len(line) + 1) :
        /\ i = 1 \/ text[i - 1] = "\n"
        /\ SubSeq(text, i, i + Len(line) - 1) = line

\* C6: the text written by ConfigPrint holds, for every entry of the store,
\* the line made of the key, the store's configured separator character
\* and the value.
C6_PrintUsesSeparator ==
    (last.op = "ConfigPrint" /\ last.ret = CONFIG_RET_OK)
    => \A e \in Mapping(cfg) :
           IsLineOf(e[2] \o <<cfg.keyval_sep>> \o e[3] \o <<"\n">>, last.text)

GrammarErrors == {CONFIG_ERR_PARSING, CONFIG_ERR_INVALID_VALUE}

\* the positions of a stream at which a line starts
LineStarts(data) ==
    {i \in 1..Len(data) : i = 1 \/ data[i - 1] = "\n"}

\* the position after the line that starts at e
LineEnd(data, e) ==
    IF \E j \in e..Len(data) : data[j] = "\n"
    THEN (CHOOSE j \in e..Len(data) :
            data[j] = "\n" /\ \A k \in e..(j - 1) : data[k] # "\n") + 1
    ELSE Len(data) + 1

\* C9: when ConfigRead returns a grammar error, a store made by the call
\* has been destroyed and the handle is null; a store supplied by the
\* caller is kept and is exactly what reading the lines ahead of the line
\* in error gives (those lines read without an error, and reading one line
\* more gives the error returned).
C9_GrammarErrorKeepsPrefix ==
    (last.op = "ConfigRead" /\ last.ret \in GrammarErrors /\ ~crashed)
    => /\ last.handle = "NULL" => last.cfg = NULLCFG
       /\ last.handle # "NULL" =>
            \E e \in LineStarts(last.data), nd \in NullDeref :
                \E before \in {ConfigRead(last.pre, Sub(last.data, 1, e), nd)},
                   upto \in {ConfigRead(last.pre,
                                        Sub(last.data, 1, LineEnd(last.data, e)),
                                        nd)} :
                    /\ before.ret = CONFIG_RET_OK /\ ~before.crashed
                    /\ before.cfg = last.cfg
                    /\ upto.ret = last.ret /\ ~upto.crashed
                    /\ upto.cfg = last.cfg

\* a read into the caller's store stopped at a line in error after it had
\* stored an entry of the lines ahead of it
C9_Witness ==
    /\ last.op = "ConfigRead"
    /\ last.handle = "cfg"
    /\ last.ret = CONFIG_ERR_PARSING
    /\ ~crashed
    /\ last.cfg # last.pre
    /\ last.cfg = cfg
    /\ Mapping(last.pre) = {}
    /\ Mapping(cfg) = {<<<<"A">>, <<"k">>, <<"v">>>>}

(***************************************************************************)
(* Claims about single lines (SpecLine)                                    *)
(***************************************************************************)
\* the settings ConfigRead scans with: those of the caller's store, or those
\* of ConfigNew when the call makes the store
SettingsOf(l) == IF l.handle = "NULL" THEN ConfigNew ELSE l.pre

Least(S) == CHOOSE i \in S : \A j \in S : i <= j

\* positions of line l, from its first ink p on, that hold a line terminator
\* or a comment character, and those that hold the separator
StopsIn(c, l, p) ==
    {i \in p..Len(l) : l[i] \in {"\r", "\n"} \/ strchr(c.comment_chars, l[i])}
SepsIn(c, l, p) == {i \in p..Len(l) : l[i] = c.keyval_sep}

\* the line is a key-value line: not blank, no comment, no section header
IsKvLine(c, l) ==
    LET p == SkipSpace(l, 1)
    IN  p <= Len(l) /\ ~strchr(c.comment_chars, l[p]) /\ l[p] # "["

\* a terminator, a comment character or the end comes ahead of the separator
NoSepFirst(c, l) ==
    LET p == SkipSpace(l, 1)
    IN  \/ SepsIn(c, l, p) = {}
        \/ /\ StopsIn(c, l, p) # {}
           /\ Least(StopsIn(c, l, p)) < Least(SepsIn(c, l, p))

\* nothing but white space stands ahead of the separator
KeyEmpty(c, l) ==
    /\ ~NoSepFirst(c, l)
    /\ Least(SepsIn(c, l, SkipSpace(l, 1))) = SkipSpace(l, 1)

\* nothing, white space only or a comment only stands after the separator
ValueEmpty(c, l) ==
    /\ ~NoSepFirst(c, l)
    /\ ~KeyEmpty(c, l)
    /\ LET s == Least(SepsIn(c, l, SkipSpace(l, 1)))
       IN  \A i \in (s + 1)..Len(l) :
              \/ isspace(l[i])
              \/ \E j \in (s + 1)..i :
                    /\ strchr(c.comment_chars, l[j])
                    /\ \A m \in (s + 1)..(j - 1) : isspace(l[m])

ExpectedError(c, l) ==
    IF NoSepFirst(c, l) \/ KeyEmpty(c, l) THEN CONFIG_ERR_PARSING
    ELSE IF ValueEmpty(c, l) THEN CONFIG_ERR_INVALID_VALUE
    ELSE CONFIG_RET_OK

\* C11: ConfigRead of a key-value line (alone, or after a section header)
\* returns ParseError when a terminator, a comment character or the end of
\* the line comes ahead of the separator or when the key is empty, and
\* InvalidValue when the value is empty; no entry is added or changed, and
\* a store made by the call is not handed out.
C11_LineErrorClassified ==
    \A l \in KvLines :
        (/\ last.op = "ConfigRead"
         /\ last.data \in {l, HeaderA \o l}
         /\ IsKvLine(SettingsOf(last), l)
         /\ ExpectedError(SettingsOf(last), l) # CONFIG_RET_OK)
        => /\ ~crashed
           /\ last.ret = ExpectedError(SettingsOf(last), l)
           /\ last.handle = "NULL" => last.cfg = NULLCFG
           /\ last.handle = "cfg" =>
                (Mapping(last.cfg) = Mapping(last.pre) /\ last.cfg = cfg)

\* a line with only a comment after the separator was read into the
\* caller's store, which held an entry
C11_Witness ==
    /\ last.op = "ConfigRead"
    /\ last.handle = "cfg"
    /\ last.data = HeaderA \o <<"k", " ", "=", " ", "#", " ", "c", "\n">>
    /\ last.ret = CONFIG_ERR_INVALID_VALUE
    /\ Mapping(cfg) = {<<<<"A">>, <<"k">>, <<"v">>>>}

\* a token without white space at its start and at its end
Trimmed(t) == t = <<>> \/ (~isspace(t[1]) /\ ~isspace(t[Len(t)]))

\* C12: after ConfigRead, every section name, key and value that the store
\* holds is free of leading and trailing white space, whatever ended the
\* token on its line: a line terminator, a comment character or the end
\* of the stream.
C12_StoredTokensTrimmed ==
    (last.op = "ConfigRead" /\ ~crashed /\ ~IsNullCfg(last.cfg))
    => /\ \A i \in 1..Len(last.cfg.sect_list) :
            last.cfg.sect_list[i].name # NULLSTR
                => Trimmed(last.cfg.sect_list[i].name)
       /\ \A e \in Mapping(last.cfg) : Trimmed(e[2]) /\ Trimmed(e[3])

(***************************************************************************)
(* Claims about the writers and the removals (SpecAdd)                     *)
(***************************************************************************)
AddOps ==
    {"ConfigAddString", "ConfigAddInt", "ConfigAddUnsignedInt",
     "ConfigAddFloat", "ConfigAddDouble", "ConfigAddBool"}

\* the number of entries a section holds: what ConfigGetKeyCount reports for
\* a section of the store; a section that is not there holds none
KeysIn(c, section) ==
    IF ConfigHasSection(c, section) THEN ConfigGetKeyCount(c, section) ELSE 0

\* the string a writer call l stores in store c
Written(c, l) ==
    CASE l.op = "ConfigAddString" -> l.value
      [] l.op = "ConfigAddInt" ->
            IF l.value = 7 THEN <<"7">> ELSE <<"-", "7">>
      [] l.op = "ConfigAddUnsignedInt" -> <<"7">>
      [] l.op = "ConfigAddFloat" -> <<"1", ".", "5", "0", "0", "0", "0", "0">>
      [] l.op = "ConfigAddDouble" ->
            <<"1", "0", "0", ".", "0", "0", "0", "0", "0", "0">>
      [] l.op = "ConfigAddBool" ->
            IF l.value THEN c.true_str ELSE c.false_str

\* the entries of a store other than the one of section s and key k
Others(c, s, k) == {e \in Mapping(c) : ~(e[1] = s /\ e[2] = k)}

\* C13: a ConfigAdd* call on a key that exists replaces its value and
\* leaves the key count of every section and the section count as they
\* were; on a key that does not exist it makes the key count of the target
\* section one more and leaves the key counts of the other sections.
C13_AddReplacesOrAppends ==
    [][(last'.op \in AddOps)
       => /\ last'.ret = CONFIG_RET_OK
          /\ LookupRet(cfg', last'.section, last'.key) = CONFIG_RET_OK
          /\ LookupValue(cfg', last'.section, last'.key) = Written(cfg, last')
          /\ Others(cfg', last'.section, last'.key)
                = Others(cfg, last'.section, last'.key)
          /\ IF LookupRet(cfg, last'.section, last'.key) = CONFIG_RET_OK
             THEN /\ \A sec \in Sections : KeysIn(cfg', sec) = KeysIn(cfg, sec)
                  /\ cfg'.numofsect = cfg.numofsect
                  /\ \A nd \in NullDeref :
                        ConfigGetSectionCount(cfg', nd)
                            = ConfigGetSectionCount(cfg, nd)
             ELSE /\ KeysIn(cfg', last'.section)
                        = KeysIn(cfg, last'.section) + 1
                  /\ \A sec \in Sections \ {last'.section} :
                        KeysIn(cfg', sec) = KeysIn(cfg, sec)]_vars

\* ConfigAddInt has replaced the value of key k of section A, which stands
\* ahead of an entry added after it
C13_Witness ==
    /\ last.op = "ConfigAddInt"
    /\ last.section = <<"A">>
    /\ ConfigHasSection(cfg, <<"A">>)
    /\ cfg.sect_list[ConfigGetSection(cfg, <<"A">>)].kv_list
          = <<[key |-> <<"k">>, value |-> <<"7">>],
              [key |-> <<"x">>, value |-> <<"v">>]>>

\* the names of the sections, in the order of the list
SectionNames(c) == [i \in 1..Len(c.sect_list) |-> c.sect_list[i].name]

\* C14: a ConfigRemoveKey call that removes a key leaves its section in
\* the store, also when the key was the last one of the section (the key
\* count is then 0); the sections and all other entries are as before.  A
\* call that removes nothing leaves the store as it was.
C14_RemoveKeyKeepsSection ==
    [][(last'.op = "ConfigRemoveKey")
       => IF last'.ret = CONFIG_RET_OK
          THEN /\ LookupRet(cfg, last'.section, last'.key) = CONFIG_RET_OK
               /\ ConfigHasSection(cfg', last'.section)
               /\ LookupRet(cfg', last'.section, last'.key) = CONFIG_ERR_NO_KEY
               /\ ConfigGetKeyCount(cfg', last'.section)
                     = ConfigGetKeyCount(cfg, last'.section) - 1
               /\ SectionNames(cfg') = SectionNames(cfg)
               /\ cfg'.numofsect = cfg.numofsect
               /\ \A i \in 1..Len(cfg.sect_list) :
                     i # ConfigGetSection(cfg, last'.section)
                         => cfg'.sect_list[i] = cfg.sect_list[i]
               /\ Mapping(cfg') = Others(cfg, last'.section, last'.key)
          ELSE cfg' = cfg]_vars

\* ConfigRemoveKey has removed the last key of section A, which is still
\* there with a key count of 0, next to an entry of the default section
C14_Witness ==
    /\ last.op = "ConfigRemoveKey"
    /\ last.ret = CONFIG_RET_OK
    /\ last.section = <<"A">>
    /\ ConfigHasSection(cfg, <<"A">>)
    /\ ConfigGetKeyCount(cfg, <<"A">>) = 0
    /\ Mapping(cfg) = {<<NULLSTR, <<"k">>, <<"v">>>>}

(***************************************************************************)
(* Claims about names and keys (SpecUnique)                                *)
(***************************************************************************)
\* C15: in every store, no two sections have the same name (so at most one
\* is the unnamed default section) and no two entries of a section have
\* the same key, names and keys being compared exactly.
C15_NamesAndKeysUnique ==
    /\ \A i, j \in 1..Len(cfg.sect_list) :
          i # j => cfg.sect_list[i].name # cfg.sect_list[j].name
    /\ \A i \in 1..Len(cfg.sect_list) :
          \A m, n \in 1..Len(cfg.sect_list[i].kv_list) :
             m # n => cfg.sect_list[i].kv_list[m].key
                        # cfg.sect_list[i].kv_list[n].key

\* ConfigRead has read a stream that names section A twice with the same
\* key, and a section a with key K, into a store that held A.k already
C15_Witness ==
    /\ last.op = "ConfigRead"
    /\ last.ret = CONFIG_RET_OK
    /\ Mapping(last.pre) = {<<<<"A">>, <<"k">>, <<"7">>>>}
    /\ Mapping(cfg) = {<<<<"A">>, <<"k">>, <<"v">>>>, <<<<"a">>, <<"K">>, <<"w">>>>}
    /\ Len(cfg.sect_list) = 3

(***************************************************************************)
(* Claims about the settings (SpecSettings)                                *)
(***************************************************************************)
SetOps == {"ConfigSetCommentCharset", "ConfigSetKeyValSepChar",
           "ConfigSetBoolString"}

\* what ConfigReadString returns and copies out for a section and key
StringOf(c, section, key) ==
    LET r == ConfigReadString(c, section, key, <<"o", "l", "d">>, 8, <<"d">>,
                              "zero")
    IN  <<r.ret, r.out>>

\* C16: a call of ConfigSetCommentCharset, ConfigSetKeyValSepChar or
\* ConfigSetBoolString, accepted or rejected, leaves the stored data as it
\* was: the sections and their order, every key and value string, the
\* section and key counts, and what ConfigReadString returns for every
\* section and key.
C16_SettersKeepData ==
    [][(last'.op \in SetOps) =>
          /\ cfg'.sect_list = cfg.sect_list
          /\ cfg'.numofsect = cfg.numofsect
          /\ SectionNames(cfg') = SectionNames(cfg)
          /\ Mapping(cfg') = Mapping(cfg)
          /\ ConfigGetSectionCount(cfg', "zero") = ConfigGetSectionCount(cfg, "zero")
          /\ \A s \in {NULLSTR, <<"A">>} :
                /\ ConfigGetKeyCount(cfg', s) = ConfigGetKeyCount(cfg, s)
                /\ \A k \in Keys : StringOf(cfg', s, k) = StringOf(cfg, s, k)
    ]_vars

\* the comment characters were set to ";" over a stored value "a;b", which
\* is read back whole
C16_Witness ==
    /\ last.op = "ConfigSetCommentCharset"
    /\ last.ret = CONFIG_RET_OK
    /\ last.value = <<";">>
    /\ cfg.comment_chars = <<";">>
    /\ StringOf(cfg, <<"A">>, <<"k">>) = <<CONFIG_RET_OK, <<"a", ";", "b">>>>

(***************************************************************************)
(* Claims about fatal errors (Spec)                                        *)
(***************************************************************************)
\* C17: no public operation is fatal: in every reachable state, and for
\* every argument, the operation just called has returned a status
\* instead of dereferencing a null pointer.
C17_NoOperationFatal ==
    ~crashed

(***************************************************************************)
(* Claims about allocation failure (SpecAlloc)                             *)
(***************************************************************************)
\* C18: when an allocation fails inside ConfigAddString (the section, its
\* name, the new entry, its key copy or the value copy), the call returns
\* CONFIG_ERR_MEMALLOC and the store is exactly as before the call.
C18_AllocFailureReported ==
    [][(last'.op = "ConfigAddString" /\ "fail" \in DOMAIN last') =>
          /\ last'.ret = CONFIG_ERR_MEMALLOC
          /\ ~crashed'
          /\ cfg' = cfg
    ]_vars

(***************************************************************************)
(* Claims about the range of the integer readers (SpecRange)               *)
(***************************************************************************)
INT_MAX_DIGITS == <<"2", "1", "4", "7", "4", "8", "3", "6", "4", "7">>
INT_MIN_DIGITS == <<"2", "1", "4", "7", "4", "8", "3", "6", "4", "8">>
UINT_MAX_DIGITS == <<"4", "2", "9", "4", "9", "6", "7", "2", "9", "5">>

\* the value is a decimal integer and nothing else
WholeDecimal(v) == v # <<>> /\ ScanInteger(v).endp = Len(v) + 1

OutsideInt(v) ==
    /\ WholeDecimal(v)
    /\ DigitsGreater(ScanInteger(v).digits,
                     IF ScanInteger(v).neg THEN INT_MIN_DIGITS
                     ELSE INT_MAX_DIGITS)

OutsideUnsignedInt(v) ==
    /\ WholeDecimal(v)
    /\ \/ ScanInteger(v).neg /\ ScanInteger(v).digits # <<>>
       \/ DigitsGreater(ScanInteger(v).digits, UINT_MAX_DIGITS)

\* C19: ConfigReadInt of a stored decimal value outside the range of int,
\* and ConfigReadUnsignedInt of one outside the range of unsigned int (a
\* negative one included), return CONFIG_ERR_INVALID_VALUE and leave the
\* output at the caller's default.
C19_OutOfRangeRejected ==
    /\ (/\ last.op = "ConfigReadInt"
        /\ LookupRet(cfg, last.section, last.key) = CONFIG_RET_OK
        /\ OutsideInt(LookupValue(cfg, last.section, last.key)))
       => (last.ret = CONFIG_ERR_INVALID_VALUE /\ last.out = last.dfl)
    /\ (/\ last.op = "ConfigReadUnsignedInt"
        /\ LookupRet(cfg, last.section, last.key) = CONFIG_RET_OK
        /\ OutsideUnsignedInt(LookupValue(cfg, last.section, last.key)))
       => (last.ret = CONFIG_ERR_INVALID_VALUE /\ last.out = last.dfl)

(***************************************************************************)
(* Claims about the order of what ConfigPrint emits (SpecOrder)            *)
(***************************************************************************)
StartsWith(t, i, line) ==
    i + Len(line) - 1 <= Len(t) /\ SubSeq(t, i, i + Len(line) - 1) = line

\* where ConfigPrint emits the header of a named section, 0 when nowhere
HeaderPos(c, name) ==
    LET t == ConfigPrint(c).text
        S == {i \in LineStarts(t) :
                StartsWith(t, i, <<"[">> \o name \o <<"]", "\n">>)}
    IN  IF S = {} THEN 0 ELSE Least(S)

\* where ConfigPrint emits the line of a key of a named section: between
\* the header and the empty line that ends the section; 0 when nowhere
KeyPos(c, name, key) ==
    LET t  == ConfigPrint(c).text
        hp == HeaderPos(c, name)
        en == Least({i \in LineStarts(t) : i > hp /\ t[i] = "\n"})
        S  == {i \in LineStarts(t) :
                 hp < i /\ i < en /\ StartsWith(t, i, key \o <<"=">>)}
    IN  IF hp = 0 \/ S = {} THEN 0 ELSE Least(S)

SectBefore(c, a, b) ==
    HeaderPos(c, a) > 0 /\ HeaderPos(c, a) < HeaderPos(c, b)

KeyBefore(c, s, j, k) ==
    KeyPos(c, s, j) > 0 /\ KeyPos(c, s, j) < KeyPos(c, s, k)

\* C20: a call of ConfigAdd* or ConfigRemove* keeps the order in which
\* ConfigPrint emits the sections and the entries that are there before
\* and after it, and what it creates is emitted last: a new section after
\* every other section, a new entry after every other entry of its
\* section.  So ConfigPrint emits sections and entries in the order of
\* their latest creation, and a ConfigAdd* on an existing key moves
\* neither the entry nor its section.
C20_PrintOrderKept ==
    [][/\ \A a \in Named : \A b \in Named \ {a} :
            /\ (SectBefore(cfg, a, b)
                 /\ HeaderPos(cfg', a) > 0 /\ HeaderPos(cfg', b) > 0)
                => SectBefore(cfg', a, b)
            /\ (HeaderPos(cfg, a) = 0 /\ HeaderPos(cfg', a) > 0
                 /\ HeaderPos(cfg', b) > 0)
                => SectBefore(cfg', b, a)
       /\ \A s \in Named : HeaderPos(cfg, s) > 0 =>
          \A j \in Keys : \A k \in Keys \ {j} :
            /\ (KeyBefore(cfg, s, j, k)
                 /\ KeyPos(cfg', s, j) > 0 /\ KeyPos(cfg', s, k) > 0)
                => KeyBefore(cfg', s, j, k)
            /\ (KeyPos(cfg, s, j) = 0 /\ KeyPos(cfg', s, j) > 0
                 /\ KeyPos(cfg', s, k) > 0)
                => KeyBefore(cfg', s, k, j)
    ]_vars

\* the first of two entries of section A has just been written again and
\* is still emitted first
C20_Witness ==
    /\ last.op = "ConfigAddString"
    /\ last.ret = CONFIG_RET_OK
    /\ last.section = <<"A">> /\ last.key = <<"k">>
    /\ KeyBefore(cfg, <<"A">>, <<"k">>, <<"x">>)

\* C20 as first stated, for a section that is removed and created again:
\* ConfigPrint emits sections in the order of their first creation, so a
\* section that was emitted before another one when it was removed is
\* emitted before it again once the next call has created it again.
C20_PrintOrderAsClaimed ==
    [][(last.op = "ConfigRemoveSection" /\ last.ret = CONFIG_RET_OK) =>
          \A a \in Named : \A b \in Named \ {a} :
             (SectBefore(last.pre, a, b)
              /\ HeaderPos(cfg', a) > 0 /\ HeaderPos(cfg', b) > 0)
             => SectBefore(cfg', a, b)
    ]_vars

(***************************************************************************)
(* Claims about the place of the default section (Spec)                    *)
(***************************************************************************)
\* C21: whenever the unnamed default section exists it is the first
\* section of the store, and so ConfigPrint emits its entries, which have
\* no header, before the first [name] header: the text begins with them.
C21_DefaultSectionFirst ==
    \A i \in 1..Len(cfg.sect_list) :
        cfg.sect_list[i].name = NULLSTR =>
            /\ i = 1
            /\ StartsWith(ConfigPrint(cfg).text, 1,
                          PrintEntries(cfg.sect_list[i].kv_list))

(***************************************************************************)
(* Claims about the conversion error indicator (SpecErrno)                 *)
(***************************************************************************)
ConversionOf(op) ==
    CASE op = "ConfigReadInt"         -> "strtol"
      [] op = "ConfigReadUnsignedInt" -> "strtoul"
      [] OTHER                        -> "strtod"

\* the stored value is a complete number in the range of the reader
CompleteInRange(op, v) ==
    CASE op = "ConfigReadInt"         -> WholeDecimal(v) /\ ~OutsideInt(v)
      [] op = "ConfigReadUnsignedInt" -> WholeDecimal(v) /\ ~OutsideUnsignedInt(v)
      [] OTHER -> v # <<>> /\ strtod(v).rest = <<>>
                  /\ Len(ScanInteger(v).digits) < Len(INT_MAX_DIGITS)

\* C22: a numeric reader called on a stored value that is a complete
\* number in its range returns CONFIG_RET_OK with the conversion of that
\* value, whatever was called before it.
C22_NumericReadDeterministic ==
    (/\ last.op \in NumericReaders
     /\ LookupRet(cfg, last.section, last.key) = CONFIG_RET_OK
     /\ CompleteInRange(last.op, LookupValue(cfg, last.section, last.key)))
    => /\ last.ret = CONFIG_RET_OK
       /\ last.out = Convert(ConversionOf(last.op),
                             LookupValue(cfg, last.section, last.key)).val

(***************************************************************************)
(* Claims about the termination of ConfigRead (SpecLoop)                   *)
(***************************************************************************)
\* C23: ConfigRead terminates on every finite stream, also when a read
\* from the stream fails before the end of the stream: every iteration of
\* its loop either returns a status (or ends the process at a fault), or
\* sets the end-of-file indicator that ends the loop, or moves forward in
\* the stream, so the loop cannot repeat a state.
C23_ReadTerminates ==
    (Reading /\ ~last.eof) =>
        \A nd \in NullDeref :
            \A it \in {ReadIteration(cfg, last.sect,
                                     fgetsError(last.data, last.pos,
                                                last.failat), nd)} :
                \/ ~it.go
                \/ it.eof
                \/ it.pos > last.pos

====
